---- MODULE Spec2Model ----
(***************************************************************************)
(* The circular-flow diagram component (CircularSankeyHomepage) and the    *)
(* home page that hosts it, as a discrete-event state machine.             *)
(*                                                                         *)
(* Time is the d3 timer clock in milliseconds.  A d3 transition is a       *)
(* record in `transitions`: it is created "scheduled", starts when its     *)
(* delay has elapsed (interrupting the running transition and cancelling   *)
(* the older pending transitions of the same name on the same element),    *)
(* and ends `duration` later, firing its "end" listener.  Removing an      *)
(* element from the document does not touch its transitions: only          *)
(* selection.interrupt() and a newer transition of the same name do.       *)
(* A window.setTimeout callback is a record in `timeouts`.                 *)
(***************************************************************************)
EXTENDS Integers, Sequences, FiniteSets, TLC

-----------------------------------------------------------------------------
(* Bounds of the exploration *)

\* the clock never advances past this many milliseconds
MaxTime == 7000
\* full re-renders (prop or width changes) after the first render
MaxRenders == 2
\* pointer enter / leave events
MaxPointer == 2
\* traversals followed per marker in the marker-timing specification
MaxLoops == 3
\* largest spawn count drawn in the marker-timing specification
MaxCount == 3
\* longest link list drawn in the render-pass specification
MaxLinks == 3

-----------------------------------------------------------------------------
(* Staged reveal configuration *)

null == 0

ANIMATION_PHASES ==
  <<[nodes |-> {"anaerobic-digester"}, links |-> {},
     delay |-> 0, duration |-> 800],
    [nodes |-> {}, links |-> {"link-house-to-ad", "link-plant-to-ad"},
     delay |-> 600, duration |-> 600],
    [nodes |-> {"pyrolysis-unit"}, links |-> {},
     delay |-> 400, duration |-> 800],
    [nodes |-> {}, links |-> {"link-ad-to-pyrolysis", "link-house-to-pyrolysis"},
     delay |-> 400, duration |-> 600],
    [nodes |-> {"rng-output", "co2-output", "syngas-output", "biochar-blend",
                "node-1765493578436-0lnym20wl"}, links |-> {},
     delay |-> 300, duration |-> 600],
    [nodes |-> {}, links |-> {"link-ad-to-rng", "link-ad-to-co2",
                "link-pyrolysis-to-syngas", "link-ad-to-blend", "link-blend-to-farm"},
     delay |-> 300, duration |-> 600]>>

\* first phase (in table order) whose node list includes nodeId, else null
getNodePhase(nodeId) ==
  LET hits == {p \in DOMAIN ANIMATION_PHASES : nodeId \in ANIMATION_PHASES[p].nodes}
  IN  IF hits = {} THEN null ELSE CHOOSE p \in hits : \A q \in hits : p <= q

\* first phase (in table order) whose link list includes linkId, else null
getLinkPhase(linkId) ==
  LET hits == {p \in DOMAIN ANIMATION_PHASES : linkId \in ANIMATION_PHASES[p].links}
  IN  IF hits = {} THEN null ELSE CHOOSE p \in hits : \A q \in hits : p <= q

\* the for loop of getPhaseStartTime: i runs from its value up to phaseNum - 1
RECURSIVE phaseStartLoop(_, _, _)
phaseStartLoop(i, phaseNum, totalDelay) ==
  IF i < phaseNum
  THEN phaseStartLoop(i + 1, phaseNum,
         totalDelay + ANIMATION_PHASES[i].delay + ANIMATION_PHASES[i].duration)
  ELSE totalDelay

getPhaseStartTimeNoOwnDelay(phaseNum) ==
  phaseStartLoop(1, phaseNum, 0)

getPhaseStartTimeFromOwnPhase(phaseNum) ==
  phaseStartLoop(2, phaseNum, 0)
    + (IF phaseNum \in DOMAIN ANIMATION_PHASES
       THEN ANIMATION_PHASES[phaseNum].delay ELSE 0)

getPhaseStartTime(phaseNum) ==
  phaseStartLoop(1, phaseNum, 0)
    + (IF phaseNum \in DOMAIN ANIMATION_PHASES
       THEN ANIMATION_PHASES[phaseNum].delay ELSE 0)

RECURSIVE totalDurationLoop(_, _)
totalDurationLoop(i, total) ==
  IF i <= 6
  THEN totalDurationLoop(i + 1,
         total + ANIMATION_PHASES[i].delay + ANIMATION_PHASES[i].duration)
  ELSE total

getTotalAnimationDuration == totalDurationLoop(1, 0)

\* the two nodes that pulse after the reveal
PulseNodeIds == {"anaerobic-digester", "pyrolysis-unit"}

-----------------------------------------------------------------------------
(* Diagram data: the static payloads a caller hands to the component.      *)
(* An optional field of a link is a field the record has or has not.       *)

Has(obj, field) == field \in DOMAIN obj

Node(id) == [id |-> id, icon |-> id]

Link(id, source, target, frequency, rate) ==
  [id |-> id, source |-> source, target |-> target,
   animationFrequency |-> frequency, animationRate |-> rate]

DATASETS ==
  [current |->
     [system |-> "current",
      nodes |-> <<Node("chicken-house"), Node("anaerobic-digester")>>,
      links |-> <<Link("link-house-to-ad", "chicken-house",
                       "anaerobic-digester", 1, 8)>>],
   proposedA |->
     [system |-> "proposed",
      nodes |-> <<Node("chicken-house"), Node("anaerobic-digester")>>,
      links |-> <<Link("link-house-to-ad", "chicken-house",
                       "anaerobic-digester", 0, 8)>>],
   proposedB |->
     [system |-> "proposed",
      nodes |-> <<Node("anaerobic-digester"), Node("pyrolysis-unit")>>,
      links |-> <<Link("link-ad-to-pyrolysis", "anaerobic-digester",
                       "pyrolysis-unit", 0, 3)>>],
   proposedC |->
     [system |-> "proposed",
      nodes |-> <<Node("biochar-blend"), Node("farm")>>,
      links |-> <<Link("link-blend-to-farm", "biochar-blend", "farm", 0, 3)>>],
   \* a chain of three nodes: the ends are not linked to each other
   detail |->
     [system |-> "current",
      nodes |-> <<Node("chicken-house"), Node("anaerobic-digester"),
                  Node("farm")>>,
      links |-> <<Link("link-house-to-ad", "chicken-house",
                       "anaerobic-digester", 0, 8),
                  Link("link-ad-to-farm", "anaerobic-digester", "farm", 0, 3)>>]]

DatasetNames == DOMAIN DATASETS

\* the two payloads HomePage imports
currentSystemData == "current"

proposedSystemData == "proposedA"

ProposedNames == {d \in DatasetNames : DATASETS[d].system = "proposed"}

Range(s) == {s[k] : k \in DOMAIN s}

NodeIds(d) == {n.id : n \in Range(DATASETS[d].nodes)}

\* nodeMap.get(id) is defined exactly for the ids of the node set
Resolved(d, link) == link.source \in NodeIds(d) /\ link.target \in NodeIds(d)

-----------------------------------------------------------------------------
(* Particle configuration of a link *)

particleCount(link) ==
  IF Has(link, "animationFrequency") THEN link.animationFrequency ELSE 3

\* link.animationRate || 3 : a missing rate and a rate of 0 both give 3
animationRate(link) ==
  IF Has(link, "animationRate") /\ link.animationRate # 0
  THEN link.animationRate ELSE 3

\* traversal time in seconds
particleDuration(link) == (11 - animationRate(link)) * 2

-----------------------------------------------------------------------------
(* State *)

VARIABLES
  mkLink,           \* the link whose markers the marker-timing runs follow
  host,             \* "home": mounted by HomePage; "other": by another caller
  showProposed,     \* HomePage state
  animateTransition,\* HomePage state, and the component's prop
  diagramData,      \* the component's prop: a name of DATASETS
  width,            \* the component's measured width
  mounted,          \* the component and its svg are in the document
  gen,              \* number of runs of the render effect; names the scene
  now,              \* the timer clock, in ms
  nextId,           \* d3's transition id counter
  transitions,      \* the d3 transitions that are scheduled or running
  timeouts,         \* the pending window.setTimeout callbacks
  nodeEls,          \* the node groups of the drawn scene: opacity, scale (x100)
  linkEls,          \* the link paths of the drawn scene: opacity (x100)
  markerEls,        \* the markers of the drawn scene: <<link id, i>>
  particleConfig,   \* the _particleConfig field stored on the link objects
  hover,            \* the node element the pointer is over, or "null"
  highlightedNode,  \* component state
  tooltipVisible,   \* component state
  tooltipIconPath,  \* component state
  tooltipContext,   \* component state
  renders,          \* re-renders so far
  pointerEvents,    \* pointer events so far
  step,             \* position inside one run of the render effect
  scene,            \* the payload of that run: nodes, links, measured bbox
  height,           \* the component's height prop
  defs,             \* the path definitions appended to <defs>
  linkGroups,       \* the link groups drawn: path and label
  nodeGroups,       \* the node groups drawn
  fit,              \* the transforms applied to the diagram group, in order
  particles,        \* the marker elements created: link, i, start point
  enableNavigation, \* the component's prop
  clicks,           \* the clicks on node groups so far: node id, router.push calls
  diagrams,         \* two diagrams of one page: instanceId and links of each
  pathEls,          \* the <path> elements each of them has appended to its <defs>
  markerPaths,      \* what getElementById returned for each link of each diagram
  labelPaths,       \* the element each label's textPath href resolves to, once painted
  cursor,           \* IconTooltip props x, y: the pointer position given to it
  viewport,         \* window.innerWidth, window.innerHeight
  tooltipRect,      \* the measured size of the tooltip element
  position,         \* IconTooltip state: left, top
  requests,         \* the requests the middleware has handled: header, outcome
  tooltipData,      \* IconTooltip state: the icon whose data is stored, or "null"
  dataContext,      \* IconTooltip state tooltipContext: its context, or "null"
  loads             \* the getTooltipForIcon promises that have not resolved yet

vars ==
  <<mkLink, host, showProposed, animateTransition, diagramData, width,
    mounted, gen, now, nextId, transitions, timeouts, nodeEls, linkEls,
    markerEls, particleConfig, hover, highlightedNode, tooltipVisible,
    tooltipIconPath, tooltipContext, renders, pointerEvents,
    step, scene, height, defs, linkGroups, nodeGroups, fit, particles,
    enableNavigation, clicks, diagrams, pathEls, markerPaths, labelPaths,
    cursor, viewport, tooltipRect, position, requests,
    tooltipData, dataContext, loads>>

\* the state of one stepped run of the render effect
passVars == <<step, scene, height, defs, linkGroups, nodeGroups, fit, particles>>

NoScene == [nodes |-> << >>, links |-> << >>]

\* no stepped run is followed
IdlePass ==
  /\ step = "idle"
  /\ scene = NoScene
  /\ height = 600
  /\ defs = {}
  /\ linkGroups = {}
  /\ nodeGroups = {}
  /\ fit = << >>
  /\ particles = {}

\* the state of the page around the diagram: navigation, a second diagram
pageVars ==
  <<enableNavigation, clicks, diagrams, pathEls, markerPaths, labelPaths,
    cursor, viewport, tooltipRect, position, requests,
    tooltipData, dataContext, loads>>

\* no request is followed
IdleServer == requests = << >>

\* the tooltip's data is not followed
IdleLoads ==
  /\ tooltipData = "null"
  /\ dataContext = "null"
  /\ loads = {}

\* the tooltip is not followed
IdleTooltip ==
  /\ cursor = [x |-> 0, y |-> 0]
  /\ viewport = [width |-> 0, height |-> 0]
  /\ tooltipRect = [width |-> 0, height |-> 0]
  /\ position = [left |-> 0, top |-> 0]

\* no second diagram is followed
IdleDocument ==
  /\ diagrams = << >>
  /\ pathEls = << >>
  /\ markerPaths = << >>
  /\ labelPaths = << >>

\* no click is followed
IdleClick ==
  /\ enableNavigation = TRUE
  /\ clicks = << >>

IdlePage ==
  IdleClick /\ IdleDocument /\ IdleTooltip /\ IdleServer /\ IdleLoads

nullNode == "null"

Widths == {850, 1100}

NoLink == [id |-> "", source |-> "", target |-> ""]

NoConfig == [count |-> 0, duration |-> 0, linkGroup |-> 0]

-----------------------------------------------------------------------------
(* The render effect *)

context(d) == IF DATASETS[d].system = "proposed" THEN "proposed" ELSE "current"

shouldAnimateFlagOnly(d, anim) == anim

shouldAnimate(d, anim) == anim /\ context(d) = "proposed"

isAnimatedLink(d, anim, link) ==
  shouldAnimate(d, anim) /\ getLinkPhase(link.id) # null

isAnimatedNode(d, anim, id) ==
  shouldAnimate(d, anim) /\ getNodePhase(id) # null

shouldPulseNode(d, anim, id) ==
  shouldAnimate(d, anim) /\ id \in PulseNodeIds

linkBaseOpacity(link, hl) ==
  IF hl # nullNode
  THEN (IF hl = link.source \/ hl = link.target THEN 80 ELSE 10)
  ELSE 60

isConnected(d, id, hl) ==
  IF hl # nullNode
  THEN \/ id = hl
       \/ \E l \in Range(DATASETS[d].links) :
            \/ (l.source = hl /\ l.target = id)
            \/ (l.target = hl /\ l.source = id)
  ELSE TRUE

nodeBaseOpacity(d, id, hl) == IF isConnected(d, id, hl) THEN 100 ELSE 20

\* a transition as d3 schedules it: created at `time`, starting `delay` later
Transition(id, g, kind, el, idx, name, time, delay, duration, what, opacity) ==
  [id |-> id, gen |-> g, kind |-> kind, el |-> el, idx |-> idx, name |-> name,
   state |-> "scheduled", time |-> time, delay |-> delay,
   duration |-> duration, what |-> what, opacity |-> opacity, loop |-> 0]

StartDue(t) == t.time + t.delay

EndDue(t) == t.time + t.delay + t.duration

\* links.forEach: the link paths drawn (links with an unresolved end are skipped)
renderLinkEls(d, anim, hl) ==
  LET drawn == {l \in Range(DATASETS[d].links) : Resolved(d, l)}
  IN  [id \in {l.id : l \in drawn} |->
         LET l == CHOOSE x \in drawn : x.id = id
         IN  [opacity |-> IF isAnimatedLink(d, anim, l) THEN 0
                          ELSE linkBaseOpacity(l, hl)]]

\* links.forEach: the reveal transitions of the animated links
renderLinkTransitions(d, anim, hl, g, t, id0) ==
  LET links == DATASETS[d].links
  IN  {Transition(id0 + k - 1, g, "link", links[k].id, 0, "", t,
                  getPhaseStartTime(getLinkPhase(links[k].id)),
                  ANIMATION_PHASES[getLinkPhase(links[k].id)].duration,
                  "linkReveal", linkBaseOpacity(links[k], hl)) :
         k \in {j \in DOMAIN links :
                  Resolved(d, links[j]) /\ isAnimatedLink(d, anim, links[j])}}

\* the _particleConfig a drawn link gets when its particleCount is > 0
particleConfigOf(link, g) ==
  IF particleCount(link) > 0
  THEN [count |-> particleCount(link), duration |-> particleDuration(link),
        linkGroup |-> g]
  ELSE NoConfig

\* links.forEach: _particleConfig is stored on each drawn link that spawns
\* markers; a link that is skipped or spawns none keeps what it had
renderParticleConfig(d, g, pc) ==
  LET links == DATASETS[d].links
  IN  [pc EXCEPT ![d] =
         [k \in DOMAIN links |->
            IF Resolved(d, links[k]) /\ particleConfigOf(links[k], g) # NoConfig
            THEN particleConfigOf(links[k], g)
            ELSE pc[d][k]]]

\* nodes.forEach: the node groups drawn
renderNodeEls(d, anim, hl) ==
  [id \in NodeIds(d) |->
     [opacity |-> IF isAnimatedNode(d, anim, id) THEN 0
                  ELSE nodeBaseOpacity(d, id, hl),
      scale |-> IF isAnimatedNode(d, anim, id) THEN 30 ELSE 100]]

\* nodes.forEach: the reveal transitions of the animated nodes
renderNodeTransitions(d, anim, hl, g, t, id0) ==
  LET nodes == DATASETS[d].nodes
  IN  {Transition(id0 + k - 1, g, "node", nodes[k].id, 0, "", t,
                  getPhaseStartTime(getNodePhase(nodes[k].id)),
                  ANIMATION_PHASES[getNodePhase(nodes[k].id)].duration,
                  "reveal", nodeBaseOpacity(d, nodes[k].id, hl)) :
         k \in {j \in DOMAIN nodes : isAnimatedNode(d, anim, nodes[j].id)}}

\* nodes.forEach: setTimeout(startPulseAnimation) for the animated pulse nodes
renderTimeouts(d, anim, g, t) ==
  {[gen |-> g, el |-> n.id, due |-> t + getTotalAnimationDuration + 500] :
     n \in {x \in Range(DATASETS[d].nodes) :
              isAnimatedNode(d, anim, x.id) /\ shouldPulseNode(d, anim, x.id)}}

\* number of markers of the links before link k
RECURSIVE markersBefore(_, _)
markersBefore(cfgs, k) ==
  IF k <= 1 THEN 0 ELSE markersBefore(cfgs, k - 1) + cfgs[k - 1].count

\* <<k, i>> for marker i of link k: for (i = 0; i < count; i++) of each config
markerSlots(cfgs) ==
  UNION {{<<k, i>> : i \in 0 .. cfgs[k].count - 1} :
           k \in {j \in DOMAIN cfgs : cfgs[j] # NoConfig}}

\* delay of marker i, in clock ticks: (i / count) * duration seconds
markerDelayNone(i, cfg, ticks) == 0

markerDelay(i, cfg, ticks) == (i * cfg.duration * ticks) \div cfg.count

\* for (i = 0; i < count; i++): the looping transition of each marker of one
\* link, on a clock of `ticks` ticks per second
markerTransitions(cfg, linkId, t, id0, ticks) ==
  {Transition(id0 + i, cfg.linkGroup, "marker", linkId, i, "", t,
              markerDelay(i, cfg, ticks), cfg.duration * ticks, "marker", 0) :
     i \in 0 .. cfg.count - 1}

\* after the fit: the markers of every link that carries a _particleConfig
renderMarkerTransitions(d, pc, t, id0) ==
  LET links == DATASETS[d].links
      cfgs == pc[d]
  IN  UNION {markerTransitions(cfgs[k], links[k].id, t,
                               id0 + markersBefore(cfgs, k), 1000) :
               k \in {j \in DOMAIN links : cfgs[j] # NoConfig}}

renderMarkerEls(d, pc) ==
  LET links == DATASETS[d].links
  IN  {<<links[m[1]].id, m[2]>> :
         m \in markerSlots(pc[d])}

\* The whole effect body for props (d, anim), run as scene g at time t.
Render(d, anim, hl, g, t, id0, pc) ==
  LET nl == Len(DATASETS[d].links)
      nn == Len(DATASETS[d].nodes)
      pc2 == renderParticleConfig(d, g, pc)
      mk == renderMarkerTransitions(d, pc2, t, id0 + nl + nn)
  IN  [nodeEls |-> renderNodeEls(d, anim, hl),
       linkEls |-> renderLinkEls(d, anim, hl),
       markerEls |-> renderMarkerEls(d, pc2),
       created |-> renderLinkTransitions(d, anim, hl, g, t, id0)
                     \cup renderNodeTransitions(d, anim, hl, g, t, id0 + nl)
                     \cup mk,
       timeouts |-> renderTimeouts(d, anim, g, t),
       nextId |-> id0 + nl + nn + Cardinality(mk),
       particleConfig |-> pc2]

-----------------------------------------------------------------------------
(* d3 transitions and timers *)

sameElement(a, b) ==
  a.gen = b.gen /\ a.kind = b.kind /\ a.el = b.el /\ a.idx = b.idx

onNode(g, id) == {t \in transitions : t.gen = g /\ t.kind = "node" /\ t.el = id}

\* function pulse(): a transition to scale 1.08 chained to one back to scale 1
startPulseAnimation(g, id, t, id0) ==
  {Transition(id0, g, "node", id, 0, "pulse", t, 0, 1500, "pulseUp", 0),
   Transition(id0 + 1, g, "node", id, 0, "pulse", t + 0 + 1500, 0, 1500,
              "pulseDown", 0)}

\* function animate(): the marker's transition, with its delay, is created again
animate(m, t, id0) ==
  [Transition(id0, m.gen, "marker", m.el, m.idx, "", t, m.delay, m.duration,
              "marker", 0) EXCEPT !.loop = m.loop + 1]

\* the scale (x100) a node transition ends at
targetScale(t) ==
  CASE t.what = "reveal" -> 100
    [] t.what = "hoverIn" -> 115
    [] t.what = "hoverOut" -> 100
    [] t.what = "pulseUp" -> 108
    [] t.what = "pulseDown" -> 100

inScene(t) == mounted /\ t.gen = gen

startDueSet == {t \in transitions : t.state = "scheduled" /\ StartDue(t) <= now}

endDueSet == {t \in transitions : t.state = "running" /\ EndDue(t) <= now}

timeoutDueSet == {x \in timeouts : x.due <= now}

\* timers run in the order they were created: the lowest transition id first
firstDue(t) ==
  /\ t \in startDueSet \cup endDueSet
  /\ \A o \in startDueSet \cup endDueSet : t.id <= o.id

quiet == startDueSet = {} /\ endDueSet = {} /\ timeoutDueSet = {}

\* schedule.js start(): the transition interrupts the running transition of its
\* name on its element and cancels the pending ones created before it
TransitionStart(t) ==
  /\ firstDue(t)
  /\ t.state = "scheduled"
  /\ LET others == {o \in transitions :
                      o # t /\ sameElement(o, t) /\ o.name = t.name}
         interrupted == {o \in others : o.state = "running"}
         cancelled == {o \in others : o.state = "scheduled" /\ o.id < t.id}
         cut == {o \in interrupted : o.what = "reveal"}
     IN  /\ transitions' =
               ((transitions \ (interrupted \cup cancelled)) \ {t})
                 \cup {[t EXCEPT !.state = "running"]}
         \* an interrupted reveal leaves the opacity where the tween had it,
         \* between 0 and the base opacity
         /\ nodeEls' =
               IF inScene(t) /\ t.kind = "node" /\ cut # {}
               THEN [nodeEls EXCEPT ![t.el].opacity =
                       (CHOOSE o \in cut : TRUE).opacity \div 2]
               ELSE nodeEls
  /\ UNCHANGED <<pageVars, passVars, mkLink, host, showProposed, animateTransition,
                 diagramData, width, mounted, gen, now, nextId, timeouts,
                 linkEls, markerEls, particleConfig, hover, highlightedNode,
                 tooltipVisible, tooltipIconPath, tooltipContext, renders,
                 pointerEvents>>

\* schedule.js tick() at the end of the duration: final values, then "end"
TransitionEnd(t) ==
  /\ firstDue(t)
  /\ t.state = "running"
  /\ LET again ==
           CASE t.what = "pulseDown" -> startPulseAnimation(t.gen, t.el, now, nextId)
             [] t.what = "marker" -> {animate(t, now, nextId)}
             [] OTHER -> {}
     IN  /\ transitions' = (transitions \ {t}) \cup again
         /\ nextId' = nextId + Cardinality(again)
  /\ nodeEls' =
       IF inScene(t) /\ t.kind = "node"
       THEN [nodeEls EXCEPT ![t.el] =
               [opacity |-> IF t.what = "reveal" THEN t.opacity ELSE @.opacity,
                scale |-> targetScale(t)]]
       ELSE nodeEls
  /\ linkEls' =
       IF inScene(t) /\ t.kind = "link"
       THEN [linkEls EXCEPT ![t.el].opacity = t.opacity]
       ELSE linkEls
  /\ UNCHANGED <<pageVars, passVars, mkLink, host, showProposed, animateTransition,
                 diagramData, width, mounted, gen, now, timeouts, markerEls,
                 particleConfig, hover, highlightedNode, tooltipVisible,
                 tooltipIconPath, tooltipContext, renders, pointerEvents>>

\* the setTimeout callback of the render that drew node x.el as scene x.gen
PulseTimeout(x) ==
  /\ x \in timeoutDueSet
  /\ timeouts' = timeouts \ {x}
  /\ transitions' = transitions \cup startPulseAnimation(x.gen, x.el, now, nextId)
  /\ nextId' = nextId + 2
  /\ UNCHANGED <<pageVars, passVars, mkLink, host, showProposed, animateTransition,
                 diagramData, width, mounted, gen, now, nodeEls, linkEls,
                 markerEls, particleConfig, hover, highlightedNode,
                 tooltipVisible, tooltipIconPath, tooltipContext, renders,
                 pointerEvents>>

\* nothing is due: the clock moves to the next timer
nextDue ==
  LET due == {StartDue(t) : t \in {x \in transitions : x.state = "scheduled"}}
               \cup {EndDue(t) : t \in {x \in transitions : x.state = "running"}}
               \cup {x.due : x \in timeouts}
  IN  CHOOSE a \in due : \A b \in due : a <= b

Advance ==
  /\ quiet
  /\ transitions # {} \/ timeouts # {}
  /\ nextDue <= MaxTime
  /\ now' = nextDue
  /\ UNCHANGED <<pageVars, passVars, mkLink, host, showProposed, animateTransition,
                 diagramData, width, mounted, gen, nextId, transitions,
                 timeouts, nodeEls, linkEls, markerEls, particleConfig, hover,
                 highlightedNode, tooltipVisible, tooltipIconPath,
                 tooltipContext, renders, pointerEvents>>

-----------------------------------------------------------------------------
(* Pointer handlers of a node group *)

iconOf(d, id) == (CHOOSE n \in Range(DATASETS[d].nodes) : n.id = id).icon

\* selection.interrupt('pulse'): every transition named pulse on the element goes
interruptPulse(g, id) == {t \in onNode(g, id) : t.name = "pulse"}

mouseenter(id) ==
  /\ mounted /\ quiet
  /\ pointerEvents < MaxPointer
  /\ hover = nullNode
  /\ id \in DOMAIN nodeEls
  /\ transitions' =
       (transitions \ interruptPulse(gen, id))
         \cup {Transition(nextId, gen, "node", id, 0, "", now, 0, 200, "hoverIn", 0)}
  /\ nextId' = nextId + 1
  /\ highlightedNode' = id
  /\ IF iconOf(diagramData, id) # ""
     THEN tooltipIconPath' = iconOf(diagramData, id) /\ tooltipVisible' = TRUE
     ELSE UNCHANGED <<tooltipIconPath, tooltipVisible>>
  /\ hover' = id
  /\ pointerEvents' = pointerEvents + 1
  /\ UNCHANGED <<pageVars, passVars, mkLink, host, showProposed, animateTransition,
                 diagramData, width, mounted, gen, now, timeouts, nodeEls,
                 linkEls, markerEls, particleConfig, tooltipContext, renders>>

mouseleave ==
  /\ mounted /\ quiet
  /\ pointerEvents < MaxPointer
  /\ hover # nullNode
  /\ transitions' =
       transitions
         \cup {Transition(nextId, gen, "node", hover, 0, "", now, 0, 200, "hoverOut", 0)}
         \cup (IF shouldPulseNode(diagramData, animateTransition, hover)
               THEN startPulseAnimation(gen, hover, now, nextId + 1)
               ELSE {})
  /\ nextId' =
       nextId + 1
         + (IF shouldPulseNode(diagramData, animateTransition, hover) THEN 2 ELSE 0)
  /\ highlightedNode' = nullNode
  /\ tooltipVisible' = FALSE
  /\ hover' = nullNode
  /\ pointerEvents' = pointerEvents + 1
  /\ UNCHANGED <<pageVars, passVars, mkLink, host, showProposed, animateTransition,
                 diagramData, width, mounted, gen, now, timeouts, nodeEls,
                 linkEls, markerEls, particleConfig, tooltipIconPath,
                 tooltipContext, renders>>

-----------------------------------------------------------------------------
(* Re-renders: the effect runs again when diagramData, width or             *)
(* animateTransition changed.  It removes the children of the svg and draws *)
(* the new scene; it cancels no transition and no timeout of the old one,   *)
(* and it returns no cleanup function.                                      *)

RenderEffect(d, anim) ==
  LET r == Render(d, anim, highlightedNode, gen + 1, now, nextId, particleConfig)
  IN  /\ gen' = gen + 1
      /\ tooltipContext' = context(d)
      /\ nodeEls' = r.nodeEls
      /\ linkEls' = r.linkEls
      /\ markerEls' = r.markerEls
      /\ transitions' = transitions \cup r.created
      /\ timeouts' = timeouts \cup r.timeouts
      /\ nextId' = r.nextId
      /\ particleConfig' = r.particleConfig
      /\ hover' = nullNode

handleToggleToProposedAlways ==
  /\ host = "home" /\ mounted /\ quiet
  /\ renders < MaxRenders
  /\ animateTransition' = TRUE
  /\ showProposed' = TRUE
  /\ diagramData' = proposedSystemData
  /\ RenderEffect(proposedSystemData, TRUE)
  /\ renders' = renders + 1
  /\ UNCHANGED <<pageVars, passVars, mkLink, host, width, mounted, now,
                 highlightedNode, tooltipVisible, tooltipIconPath,
                 pointerEvents>>

handleToggleToProposed ==
  /\ host = "home" /\ mounted /\ quiet
  /\ IF ~showProposed
     THEN /\ renders < MaxRenders
          /\ animateTransition' = TRUE
          /\ showProposed' = TRUE
          /\ diagramData' = proposedSystemData
          /\ RenderEffect(proposedSystemData, TRUE)
          /\ renders' = renders + 1
          /\ UNCHANGED <<pageVars, passVars, mkLink, host, width, mounted, now,
                         highlightedNode, tooltipVisible, tooltipIconPath,
                         pointerEvents>>
     ELSE UNCHANGED vars

handleToggleToCurrent ==
  /\ host = "home" /\ mounted /\ quiet
  /\ IF showProposed \/ animateTransition
     THEN /\ renders < MaxRenders
          /\ animateTransition' = FALSE
          /\ showProposed' = FALSE
          /\ diagramData' = currentSystemData
          /\ RenderEffect(currentSystemData, FALSE)
          /\ renders' = renders + 1
          /\ UNCHANGED <<pageVars, passVars, mkLink, host, width, mounted, now,
                         highlightedNode, tooltipVisible, tooltipIconPath,
                         pointerEvents>>
     ELSE UNCHANGED vars

\* the ResizeObserver callback: setWidth(entry.contentRect.width).  The
\* container of HomePage is the one that is resized here.
Resize(w) ==
  /\ host = "home" /\ mounted /\ quiet
  /\ renders < MaxRenders
  /\ w > 0 /\ w # width
  /\ width' = w
  /\ RenderEffect(diagramData, animateTransition)
  /\ renders' = renders + 1
  /\ UNCHANGED <<pageVars, passVars, mkLink, host, showProposed, animateTransition,
                 diagramData, mounted, now, highlightedNode, tooltipVisible,
                 tooltipIconPath, pointerEvents>>

\* the component leaves the page: its elements go, the observer disconnects
Unmount ==
  /\ mounted /\ quiet
  /\ mounted' = FALSE
  /\ nodeEls' = << >>
  /\ linkEls' = << >>
  /\ markerEls' = {}
  /\ hover' = nullNode
  /\ UNCHANGED <<pageVars, passVars, mkLink, host, showProposed, animateTransition,
                 diagramData, width, gen, now, nextId, transitions, timeouts,
                 particleConfig, highlightedNode, tooltipVisible,
                 tooltipIconPath, tooltipContext, renders, pointerEvents>>

-----------------------------------------------------------------------------
(* The component as constructed, before its effects have run *)

InitProps ==
  \/ /\ host = "home"
     /\ showProposed = FALSE
     /\ animateTransition = FALSE
     /\ diagramData = currentSystemData
  \* another caller: any payload and flag, fixed while mounted
  \/ /\ host = "other"
     /\ showProposed = FALSE
     /\ animateTransition \in BOOLEAN
     /\ diagramData \in DatasetNames

Init ==
  /\ IdlePass
  /\ IdlePage
  /\ mkLink = NoLink
  /\ InitProps
  /\ width = 1100
  /\ mounted = FALSE
  /\ gen = 0
  /\ now = 0
  /\ highlightedNode = nullNode
  /\ hover = nullNode
  /\ tooltipVisible = FALSE
  /\ tooltipIconPath = ""
  /\ tooltipContext = "current"
  /\ renders = 0
  /\ pointerEvents = 0
  /\ nodeEls = << >>
  /\ linkEls = << >>
  /\ markerEls = {}
  /\ transitions = {}
  /\ timeouts = {}
  /\ nextId = 1
  /\ particleConfig = [d \in DatasetNames |->
                         [k \in DOMAIN DATASETS[d].links |-> NoConfig]]

\* the effects run for the first time: the first render
Mount ==
  /\ ~mounted /\ gen = 0
  /\ mounted' = TRUE
  /\ RenderEffect(diagramData, animateTransition)
  /\ UNCHANGED <<pageVars, passVars, mkLink, host, showProposed, animateTransition,
                 diagramData, width, now, highlightedNode, tooltipVisible,
                 tooltipIconPath, renders, pointerEvents>>

Next ==
  \/ Mount
  \/ \E t \in transitions : TransitionStart(t)
  \/ \E t \in transitions : TransitionEnd(t)
  \/ \E x \in timeouts : PulseTimeout(x)
  \/ Advance
  \/ \E id \in DOMAIN nodeEls : mouseenter(id)
  \/ mouseleave
  \/ handleToggleToProposed
  \/ handleToggleToCurrent
  \/ \E w \in Widths : Resize(w)
  \/ Unmount

Spec == Init /\ [][Next]_vars

-----------------------------------------------------------------------------
(* Marker timing.  One link, drawn from MarkerLinks, has just been rendered *)
(* at time 0; its markers loop.  The clock of these runs ticks count times  *)
(* per second, so that (i / count) * duration is a whole number of ticks.   *)

Rates == 0 .. 10

MarkerLinks ==
  LET base == [id |-> "link", source |-> "a", target |-> "b"]
      withCount == {base} \cup
                   {[id |-> "link", source |-> "a", target |-> "b",
                     animationFrequency |-> c] : c \in 0 .. MaxCount}
  IN  withCount \cup
      {[id |-> l.id, source |-> l.source, target |-> l.target,
        animationFrequency |-> particleCount(l), animationRate |-> r] :
         l \in withCount, r \in Rates}

InitMarkers ==
  /\ IdlePass
  /\ IdlePage
  /\ mkLink \in MarkerLinks
  /\ host = "other"
  /\ showProposed = FALSE
  /\ animateTransition = FALSE
  /\ diagramData = currentSystemData
  /\ width = 1100
  /\ mounted = TRUE
  /\ gen = 1
  /\ now = 0
  /\ highlightedNode = nullNode
  /\ hover = nullNode
  /\ tooltipVisible = FALSE
  /\ tooltipIconPath = ""
  /\ tooltipContext = "current"
  /\ renders = 0
  /\ pointerEvents = 0
  /\ nodeEls = << >>
  /\ linkEls = << >>
  /\ timeouts = {}
  /\ particleConfig = [d \in DatasetNames |->
                         [k \in DOMAIN DATASETS[d].links |-> NoConfig]]
  /\ LET cfg == particleConfigOf(mkLink, 1)
         created == IF cfg = NoConfig THEN {}
                    ELSE markerTransitions(cfg, mkLink.id, 0, 1, cfg.count)
     IN  /\ transitions = created
         /\ markerEls = {<<t.el, t.idx>> : t \in created}
         /\ nextId = 1 + Cardinality(created)

\* nothing is due: the clock moves to the next timer of a marker
AdvanceMarkers ==
  /\ quiet
  /\ transitions # {}
  /\ \A t \in transitions : t.loop <= MaxLoops
  /\ now' = nextDue
  /\ UNCHANGED <<pageVars, passVars, mkLink, host, showProposed, animateTransition,
                 diagramData, width, mounted, gen, nextId, transitions,
                 timeouts, nodeEls, linkEls, markerEls, particleConfig, hover,
                 highlightedNode, tooltipVisible, tooltipIconPath,
                 tooltipContext, renders, pointerEvents>>

NextMarkers ==
  \/ \E t \in transitions : TransitionStart(t)
  \/ \E t \in transitions : TransitionEnd(t)
  \/ AdvanceMarkers

SpecMarkers == InitMarkers /\ [][NextMarkers]_vars

-----------------------------------------------------------------------------
(* One run of the render effect, followed step by step: path geometry,     *)
(* path definitions, labels, the viewport fit and the marker elements.     *)
(* Coordinates are integers; a label position p is held as 100 * p; a      *)
(* scale or a translation is the fraction num / den.                       *)

Rect(x, y, w, h) == [x |-> x, y |-> y, width |-> w, height |-> h]

Max(a, b) == IF a >= b THEN a ELSE b

Seg(op, pts) == [op |-> op, pts |-> pts]

\* nodeMap.get(id)
nodeMapHas(sc, id) == id \in DOMAIN sc.nodes

sourceAnchorLeftEdge(node) == <<node.x, node.y + node.height \div 2>>

\* sx, sy: the right-centre of the source
sourceAnchor(node) == <<node.x + node.width, node.y + node.height \div 2>>

\* tx, ty: the left-centre of the target
targetAnchor(node) == <<node.x, node.y + node.height \div 2>>

isReversePathAtOrLeft(sx, tx) == tx <= sx

\* generateLinkPath: const isReverse = tx < sx
isReversePath(sx, tx) == tx < sx

staggerNone(linkIndex) == 0

\* const stagger = linkIndex * 60
stagger(linkIndex) == linkIndex * 60

loopYNoClearance(link, sy, ty, linkIndex) ==
  IF Has(link, "returnY") THEN link.returnY
  ELSE Max(sy, ty) + stagger(linkIndex)

\* returnY !== undefined ? returnY : Math.max(sy, ty) + 100 + stagger
loopYOf(link, sy, ty, linkIndex) ==
  IF Has(link, "returnY") THEN link.returnY
  ELSE Max(sy, ty) + 100 + stagger(linkIndex)

\* the path string, as its commands in order; '' is the empty sequence
generateLinkPath(sc, link, linkIndex, reverse) ==
  IF ~(nodeMapHas(sc, link.source) /\ nodeMapHas(sc, link.target))
  THEN << >>
  ELSE
    LET sx == sourceAnchor(sc.nodes[link.source])[1]
        sy == sourceAnchor(sc.nodes[link.source])[2]
        tx == targetAnchor(sc.nodes[link.target])[1]
        ty == targetAnchor(sc.nodes[link.target])[2]
        gap == 30
        loopY == loopYOf(link, sy, ty, linkIndex)
        sourceCurveDir == IF sy < loopY THEN 1 ELSE -1
        targetCurveDir == IF ty < loopY THEN -1 ELSE 1
        midX == (sx + tx) \div 2
    IN  IF isReversePath(sx, tx)
        THEN IF reverse
             THEN <<Seg("M", <<<<tx, ty>>>>),
                    Seg("L", <<<<tx - gap, ty>>>>),
                    Seg("Q", <<<<tx - gap - 20, ty>>,
                               <<tx - gap - 20, ty - (20 * targetCurveDir)>>>>),
                    Seg("L", <<<<tx - gap - 20, loopY + (20 * targetCurveDir)>>>>),
                    Seg("Q", <<<<tx - gap - 20, loopY>>, <<tx - gap, loopY>>>>),
                    Seg("L", <<<<sx + gap, loopY>>>>),
                    Seg("Q", <<<<sx + gap + 20, loopY>>,
                               <<sx + gap + 20, loopY - (20 * sourceCurveDir)>>>>),
                    Seg("L", <<<<sx + gap + 20, sy + (20 * sourceCurveDir)>>>>),
                    Seg("Q", <<<<sx + gap + 20, sy>>, <<sx + gap, sy>>>>),
                    Seg("L", <<<<sx, sy>>>>)>>
             ELSE <<Seg("M", <<<<sx, sy>>>>),
                    Seg("L", <<<<sx + gap, sy>>>>),
                    Seg("Q", <<<<sx + gap + 20, sy>>,
                               <<sx + gap + 20, sy + (20 * sourceCurveDir)>>>>),
                    Seg("L", <<<<sx + gap + 20, loopY - (20 * sourceCurveDir)>>>>),
                    Seg("Q", <<<<sx + gap + 20, loopY>>, <<sx + gap, loopY>>>>),
                    Seg("L", <<<<tx - gap, loopY>>>>),
                    Seg("Q", <<<<tx - gap - 20, loopY>>,
                               <<tx - gap - 20, loopY + (20 * targetCurveDir)>>>>),
                    Seg("L", <<<<tx - gap - 20, ty - (20 * targetCurveDir)>>>>),
                    Seg("Q", <<<<tx - gap - 20, ty>>, <<tx - gap, ty>>>>),
                    Seg("L", <<<<tx, ty>>>>)>>
        ELSE <<Seg("M", <<<<sx, sy>>>>),
               Seg("C", <<<<midX, sy>>, <<midX, ty>>, <<tx, ty>>>>)>>

\* the ids `link-path-${instanceId}-${link.id}` and `...-text` of link k
pathId(k) == [link |-> k, suffix |-> ""]

textPathIdOf(k) == [link |-> k, suffix |-> "-text"]

isReverseDefsLeftEdge(sc, link) ==
  /\ nodeMapHas(sc, link.target) /\ nodeMapHas(sc, link.source)
  /\ sc.nodes[link.target].x < sc.nodes[link.source].x

\* defs loop: isReverse = targetNode && sourceNode && target.x < source.x + width
isReverseDefs(sc, link) ==
  /\ nodeMapHas(sc, link.target) /\ nodeMapHas(sc, link.source)
  /\ sc.nodes[link.target].x
       < sc.nodes[link.source].x + sc.nodes[link.source].width

\* label: the same test, computed again
isReverseLabel(sc, link) ==
  /\ nodeMapHas(sc, link.target) /\ nodeMapHas(sc, link.source)
  /\ sc.nodes[link.target].x
       < sc.nodes[link.source].x + sc.nodes[link.source].width

defsOfSameDirection(sc) ==
  UNION {{[id |-> pathId(k),
           d |-> generateLinkPath(sc, sc.links[k], k - 1, FALSE)]}
           \cup (IF isReverseDefs(sc, sc.links[k])
                 THEN {[id |-> textPathIdOf(k),
                        d |-> generateLinkPath(sc, sc.links[k], k - 1, FALSE)]}
                 ELSE {}) :
         k \in DOMAIN sc.links}

\* diagramData.links.forEach((link, index) => defs.append('path') ...)
defsOf(sc) ==
  UNION {{[id |-> pathId(k),
           d |-> generateLinkPath(sc, sc.links[k], k - 1, FALSE)]}
           \cup (IF isReverseDefs(sc, sc.links[k])
                 THEN {[id |-> textPathIdOf(k),
                        d |-> generateLinkPath(sc, sc.links[k], k - 1, TRUE)]}
                 ELSE {}) :
         k \in DOMAIN sc.links}

NoLabel == [href |-> pathId(0), startOffset |-> -1]

labelOffsetOr(link) ==
  IF Has(link, "labelPosition") /\ link.labelPosition # 0
  THEN link.labelPosition ELSE 50

\* (link.labelPosition ?? 0.5) * 100, in percent
labelOffset(link) ==
  IF Has(link, "labelPosition") THEN link.labelPosition ELSE 50

\* if (link.label): the textPath of the label
labelOf(sc, k) ==
  LET link == sc.links[k]
  IN  IF Has(link, "label") /\ link.label # ""
      THEN [href |-> IF isReverseLabel(sc, link) THEN textPathIdOf(k)
                     ELSE pathId(k),
            startOffset |-> labelOffset(link)]
      ELSE NoLabel

\* diagramData.links.forEach: the groups of the links whose ends resolve,
\* each with its path, its label and the _particleConfig stored on the link
linkGroupsOf(sc) ==
  {[link |-> k,
    d |-> generateLinkPath(sc, sc.links[k], k - 1, FALSE),
    label |-> labelOf(sc, k),
    config |-> particleConfigOf(sc.links[k], k)] :
     k \in {j \in DOMAIN sc.links :
              nodeMapHas(sc, sc.links[j].source)
                /\ nodeMapHas(sc, sc.links[j].target)}}

\* diagramData.nodes.forEach: one group per node
nodeGroupsOf(sc) == DOMAIN sc.nodes

fitScaleNoPadding(w, h, bbox) ==
  IF w * bbox.height <= h * bbox.width
  THEN [num |-> w * 19, den |-> bbox.width * 20]
  ELSE [num |-> h * 19, den |-> bbox.height * 20]

\* scale = Math.min((width - 20) / bbox.width, (height - 20) / bbox.height) * 0.95
\* (0.95 is 19 / 20)
fitScale(w, h, bbox) ==
  LET padding == 20
  IN  IF (w - padding) * bbox.height <= (h - padding) * bbox.width
      THEN [num |-> (w - padding) * 19, den |-> bbox.width * 20]
      ELSE [num |-> (h - padding) * 19, den |-> bbox.height * 20]

fitTranslateNoOrigin(size, extent, origin, scale) ==
  [num |-> size * scale.den - extent * scale.num, den |-> 2 * scale.den]

\* (size - extent * scale) / 2 - origin * scale
fitTranslate(size, extent, origin, scale) ==
  [num |-> size * scale.den - extent * scale.num - 2 * origin * scale.num,
   den |-> 2 * scale.den]

\* g.attr('transform', `translate(${translateX},${translateY}) scale(${scale})`)
fitTransform(w, h, bbox) ==
  LET scale == fitScale(w, h, bbox)
  IN  [scale |-> scale,
       translateX |-> fitTranslate(w, bbox.width, bbox.x, scale),
       translateY |-> fitTranslate(h, bbox.height, bbox.y, scale)]

\* pathElement?.getPointAtLength(0) || { x: 0, y: 0 }
startPoint(ds, id) ==
  LET found == {e \in ds : e.id = id /\ e.d # << >>}
  IN  IF found = {} THEN <<0, 0>>
      ELSE (CHOOSE e \in found : TRUE).d[1].pts[1]

\* the markers of every link that carries a _particleConfig
particlesOf(groups, ds, fits) ==
  UNION {{[link |-> grp.link, i |-> i,
           start |-> startPoint(ds, pathId(grp.link)), fits |-> fits] :
            i \in 0 .. grp.config.count - 1} :
         grp \in {x \in groups : x.config # NoConfig}}

nextStepMarkersFirst(at) ==
  CASE at = "defs" -> "links"
    [] at = "links" -> "nodes"
    [] at = "nodes" -> "markers"
    [] at = "markers" -> "fit"
    [] at = "fit" -> "done"

\* the order of the statements of the effect body
nextStep(at) ==
  CASE at = "defs" -> "links"
    [] at = "links" -> "nodes"
    [] at = "nodes" -> "fit"
    [] at = "fit" -> "markers"
    [] at = "markers" -> "done"

lifeVars ==
  <<mkLink, host, showProposed, animateTransition, diagramData, width,
    mounted, gen, now, nextId, transitions, timeouts, nodeEls, linkEls,
    markerEls, particleConfig, hover, highlightedNode, tooltipVisible,
    tooltipIconPath, tooltipContext, renders, pointerEvents>>

DefsStep ==
  /\ step = "defs"
  /\ defs' = defsOf(scene)
  /\ step' = nextStep(step)
  /\ UNCHANGED <<pageVars, lifeVars, scene, height, linkGroups, nodeGroups, fit, particles>>

LinksStep ==
  /\ step = "links"
  /\ linkGroups' = linkGroupsOf(scene)
  /\ step' = nextStep(step)
  /\ UNCHANGED <<pageVars, lifeVars, scene, height, defs, nodeGroups, fit, particles>>

NodesStep ==
  /\ step = "nodes"
  /\ nodeGroups' = nodeGroupsOf(scene)
  /\ step' = nextStep(step)
  /\ UNCHANGED <<pageVars, lifeVars, scene, height, defs, linkGroups, fit, particles>>

\* const bbox = g.node()?.getBBox(); if (bbox) { ... g.attr('transform', ...)
FitStep ==
  /\ step = "fit"
  /\ fit' = Append(fit, fitTransform(width, height, scene.bbox))
  /\ step' = nextStep(step)
  /\ UNCHANGED <<pageVars, lifeVars, scene, height, defs, linkGroups, nodeGroups, particles>>

MarkersStep ==
  /\ step = "markers"
  /\ particles' = particlesOf(linkGroups, defs, Len(fit))
  /\ step' = nextStep(step)
  /\ UNCHANGED <<pageVars, lifeVars, scene, height, defs, linkGroups, nodeGroups, fit>>

-----------------------------------------------------------------------------
(* The payloads of the stepped runs: node A fixed, node B at a drawn x,    *)
(* every list of up to MaxLinks links of the kinds below, and a bounding   *)
(* box as the browser measures it.                                         *)

TargetXs == {40, 100, 160}

SceneNodes(bx) == [A |-> Rect(60, 40, 40, 20), B |-> Rect(bx, 190, 40, 20)]

LinkKinds ==
  {[source |-> "A", target |-> "B"],
   [source |-> "A", target |-> "B", label |-> "L", labelPosition |-> 0,
    animationFrequency |-> 0],
   [source |-> "A", target |-> "B", label |-> "L", labelPosition |-> 25,
    animationFrequency |-> 2, returnY |-> 20],
   [source |-> "A", target |-> "ghost", label |-> "L",
    animationFrequency |-> 2],
   [source |-> "B", target |-> "A", label |-> "L"],
   [source |-> "B", target |-> "A", returnY |-> 120, animationFrequency |-> 0]}

LinkLists == UNION {[1 .. n -> LinkKinds] : n \in 0 .. MaxLinks}

BBoxes == {Rect(-10, 0, 400, 100), Rect(0, -20, 200, 300), Rect(30, 40, 300, 300)}

Heights == {600, 700}

InitRender ==
  /\ IdlePage
  /\ mkLink = NoLink
  /\ host = "other"
  /\ showProposed = FALSE
  /\ animateTransition = FALSE
  /\ diagramData = currentSystemData
  /\ width \in Widths
  /\ mounted = TRUE
  /\ gen = 1
  /\ now = 0
  /\ nextId = 1
  /\ transitions = {}
  /\ timeouts = {}
  /\ nodeEls = << >>
  /\ linkEls = << >>
  /\ markerEls = {}
  /\ particleConfig = [d \in DatasetNames |->
                         [k \in DOMAIN DATASETS[d].links |-> NoConfig]]
  /\ hover = nullNode
  /\ highlightedNode = nullNode
  /\ tooltipVisible = FALSE
  /\ tooltipIconPath = ""
  /\ tooltipContext = "current"
  /\ renders = 0
  /\ pointerEvents = 0
  \* the effect has cleared the svg and appended the diagram group
  /\ step = "defs"
  /\ scene \in {[nodes |-> SceneNodes(bx), links |-> ls, bbox |-> b] :
                  bx \in TargetXs, ls \in LinkLists, b \in BBoxes}
  /\ height \in Heights
  /\ defs = {}
  /\ linkGroups = {}
  /\ nodeGroups = {}
  /\ fit = << >>
  /\ particles = {}

NextRender ==
  \/ DefsStep
  \/ LinksStep
  \/ NodesStep
  \/ FitStep
  \/ MarkersStep

SpecRender == InitRender /\ [][NextRender]_vars

-----------------------------------------------------------------------------
(* Properties of the lifecycle: leaks across renders                        *)

markerLoops == {t \in transitions : t.kind = "marker"}

\* C1: after a re-render or an unmount no marker loop of an earlier render is
\* still scheduled: the marker loops are exactly the markers of the scene that
\* is drawn now.
C1_MarkerLoopsAreTheDrawnMarkers ==
  /\ \A t \in markerLoops : inScene(t)
  /\ {<<t.el, t.idx>> : t \in markerLoops} = markerEls

\* C2: the delayed pulse start of a render never takes effect after a later
\* re-render or after unmount: a timer that fires, fires in the scene that
\* set it, which is still the one drawn.
C2_PulseTimerFiresInItsScene ==
  [][\A x \in timeouts \ timeouts' : mounted /\ x.gen = gen]_vars

-----------------------------------------------------------------------------
(* Properties of the staged reveal                                          *)

BaseOpacities == {20, 100}

revealsOn(id) == {t \in onNode(gen, id) : t.what = "reveal"}

\* C3: with the staged reveal active every node named in a phase reaches the
\* revealed state whatever pointer events occur on it.  On a finite run: a
\* named node that is not yet at a base opacity still has its reveal pending
\* or running, since nothing else ever sets the opacity of a node.
C3_HiddenNodeStillHasItsReveal ==
  \A id \in DOMAIN nodeEls :
    (isAnimatedNode(diagramData, animateTransition, id)
       /\ nodeEls[id].opacity \notin BaseOpacities)
      => revealsOn(id) # {}

\* C4: pointer enter on a pulsing node interrupts its pulse loop and pointer
\* leave restarts it: the pulse loop is never running, nor scheduled, on a
\* node while the pointer is over it.
C4_NoPulseWhileHovered ==
  \A id \in DOMAIN nodeEls :
    hover = id => \A t \in onNode(gen, id) : t.name # "pulse"

\* the claim's own reading of "active" and of "named in some phase"
revealActive ==
  animateTransition /\ DATASETS[diagramData].system = "proposed"

namedNode(id) == \E p \in DOMAIN ANIMATION_PHASES : id \in ANIMATION_PHASES[p].nodes

namedLink(id) == \E p \in DOMAIN ANIMATION_PHASES : id \in ANIMATION_PHASES[p].links

linkOf(id) == CHOOSE l \in Range(DATASETS[diagramData].links) : l.id = id

\* the scene a render has just drawn, before anything else happened to it
FreshSceneOK ==
  LET fresh == {t \in transitions : t.gen = gen}
      hiddenNode(id) == nodeEls[id].opacity = 0 /\ nodeEls[id].scale = 30
      plainNode(id) ==
        /\ nodeEls[id].opacity = nodeBaseOpacity(diagramData, id, highlightedNode)
        /\ nodeEls[id].scale = 100
        /\ \A t \in fresh : ~(t.kind = "node" /\ t.el = id)
      hiddenLink(id) == linkEls[id].opacity = 0
      plainLink(id) ==
        /\ linkEls[id].opacity = linkBaseOpacity(linkOf(id), highlightedNode)
        /\ \A t \in fresh : ~(t.kind = "link" /\ t.el = id)
  IN  /\ ~revealActive =>
           /\ \A t \in fresh : t.what \notin {"reveal", "linkReveal"}
                                 /\ t.name # "pulse"
           /\ \A x \in timeouts : x.gen # gen
           /\ \A id \in DOMAIN nodeEls : plainNode(id)
           /\ \A id \in DOMAIN linkEls : plainLink(id)
      /\ revealActive =>
           /\ \A id \in DOMAIN nodeEls :
                IF namedNode(id)
                THEN hiddenNode(id)
                       /\ \E t \in fresh : t.el = id /\ t.what = "reveal"
                ELSE plainNode(id)
           /\ \A id \in DOMAIN linkEls :
                IF namedLink(id)
                THEN hiddenLink(id)
                       /\ \E t \in fresh : t.el = id /\ t.what = "linkReveal"
                ELSE plainLink(id)

\* C5: the staged reveal is active exactly when the flag is set and the
\* dataset's system is "proposed".  Not active: the render schedules no reveal
\* and no pulse and every element starts at base opacity and native scale.
\* Active: exactly the named nodes and links start hidden, the others start at
\* base opacity with no reveal transition.  Stated of every render, the
\* first one included.
C5_StagedRevealActivation ==
  [][gen' # gen => FreshSceneOK']_vars

\* a re-render drew a scene with the reveal active: one named node hidden and
\* one unnamed node plain
C5_Witness ==
  /\ gen = 2 /\ revealActive /\ now = 0
  /\ \E id \in DOMAIN nodeEls : namedNode(id) /\ nodeEls[id].opacity = 0
  /\ \E id \in DOMAIN nodeEls : ~namedNode(id) /\ nodeEls[id].opacity = 100

RECURSIVE sumOfPriorPhases(_)
sumOfPriorPhases(N) ==
  IF N <= 1 THEN 0
  ELSE sumOfPriorPhases(N - 1)
         + ANIMATION_PHASES[N - 1].delay + ANIMATION_PHASES[N - 1].duration

revealTransitions == {t \in transitions : t.what \in {"reveal", "linkReveal"}}

namedIn(t, N) ==
  \/ t.kind = "node" /\ t.el \in ANIMATION_PHASES[N].nodes
  \/ t.kind = "link" /\ t.el \in ANIMATION_PHASES[N].links

\* C6: for every phase N in 1..6, getPhaseStartTime(N) is the sum of
\* (delay + duration) over phases 1..N-1 plus the delay of phase N, and the
\* reveal transition of every element named in phase N is delayed by exactly
\* that amount.
C6_PhaseStartTime ==
  \A N \in 1 .. 6 :
    /\ getPhaseStartTime(N) = sumOfPriorPhases(N) + ANIMATION_PHASES[N].delay
    /\ \A t \in revealTransitions :
         namedIn(t, N) =>
           t.delay = sumOfPriorPhases(N) + ANIMATION_PHASES[N].delay

\* the reveal of the phase 3 node has started, 2400 ms after the render
C6_Witness ==
  \E t \in revealTransitions :
    /\ t.el = "pyrolysis-unit" /\ t.state = "running"
    /\ t.time = 0 /\ now = 2400

phasePairs ==
  [p \in 1 .. 6 |-> <<ANIMATION_PHASES[p].delay, ANIMATION_PHASES[p].duration>>]

claimedPairs ==
  << <<0, 800>>, <<600, 600>>, <<400, 800>>,
     <<400, 600>>, <<300, 600>>, <<300, 600>> >>

\* C7: with the (delay, duration) pairs (0,800)(600,600)(400,800)(400,600)
\* (300,600)(300,600) the absolute start time of phase 4 is 3000 ms.
C7_PhaseFourStartsAt3000 ==
  /\ phasePairs = claimedPairs
  /\ getPhaseStartTime(4) = 3000
  /\ \A t \in revealTransitions :
       namedIn(t, 4) => StartDue(t) = t.time + 3000

\* C7 as amended: with those pairs the absolute start time of phase 4 is
\* (0 + 800) + (600 + 600) + (400 + 800) + 400 = 3600 ms, and the reveal of
\* every phase 4 element starts 3600 ms after its render.
C7_PhaseFourStartsAt3600 ==
  /\ phasePairs = claimedPairs
  /\ getPhaseStartTime(4) = (0 + 800) + (600 + 600) + (400 + 800) + 400
  /\ getPhaseStartTime(4) = 3600
  /\ \A t \in revealTransitions :
       namedIn(t, 4) => StartDue(t) = t.time + 3600

\* the reveal of a phase 4 link has started, 3600 ms after the render
C7_Witness ==
  \E t \in revealTransitions :
    /\ namedIn(t, 4) /\ t.state = "running"
    /\ t.time = 0 /\ now = 3600

-----------------------------------------------------------------------------
(* Properties of the marker timing.  In the marker-timing runs a time of    *)
(* x ticks is x / count seconds, count being the number of markers drawn.   *)

markerCount == Cardinality(markerEls)

\* C8: all markers of one link loop with the same period, so on every loop
\* iteration the traversal starts of consecutive markers are duration / count
\* apart, as they are on the first one.
C8_MarkersStayEvenlySpaced ==
  \A a, b \in markerLoops :
    (sameElement(a, [b EXCEPT !.idx = a.idx])
       /\ b.idx = a.idx + 1 /\ a.loop = b.loop)
      => (StartDue(b) - StartDue(a)) * markerCount = a.duration

configuredRate == Has(mkLink, "animationRate") /\ mkLink.animationRate # 0

C10_HigherRateShorterTraversal ==
  \A r2 \in Rates :
    (Has(mkLink, "animationRate") /\ mkLink.animationRate < r2) =>
      \A t \in markerLoops :
        particleDuration([mkLink EXCEPT !.animationRate = r2]) * markerCount
          < t.duration

-----------------------------------------------------------------------------
(* Properties of one run of the render effect                               *)

resolvedLinks ==
  {k \in DOMAIN scene.links :
     scene.links[k].source \in DOMAIN scene.nodes
       /\ scene.links[k].target \in DOMAIN scene.nodes}

\* C11: within a render pass all link and node geometry is built, then the
\* fit transform is applied exactly once, then the markers are created: no
\* marker element exists before the transform has been applied.
C11_FitOnceBeforeMarkers ==
  /\ Len(fit) <= 1
  /\ Len(fit) = 1 =>
       /\ \A k \in resolvedLinks : \E grp \in linkGroups : grp.link = k
       /\ \A n \in DOMAIN scene.nodes : n \in nodeGroups
  /\ \A m \in particles : m.fits = 1 /\ Len(fit) = 1
  /\ step = "done" => Len(fit) = 1

\* a pass has ended with markers drawn
C11_Witness ==
  step = "done" /\ particles # {} /\ Len(fit) = 1

Frac(n, d) == [num |-> n, den |-> d]

\* on fractions with positive denominators
FracEq(a, b) == a.num * b.den = b.num * a.den

FracLeq(a, b) == a.num * b.den <= b.num * a.den

FracAdd(a, b) ==
  IF a.den = b.den THEN Frac(a.num + b.num, a.den)
  ELSE Frac(a.num * b.den + b.num * a.den, a.den * b.den)

\* min(availW / W, availH / H) * 0.95 with the viewport reduced by pad
scaleFor(pad) ==
  LET x == Frac(width - pad, scene.bbox.width)
      y == Frac(height - pad, scene.bbox.height)
      m == IF FracLeq(x, y) THEN x ELSE y
  IN  Frac(m.num * 95, m.den * 100)

\* C12: for a bounding box W x H fitted into a viewport Vw x Vh the scale
\* applied to the scene is min(Vw / W, Vh / H) * 0.95.
C12_ScaleOfWholeViewport ==
  \A i \in DOMAIN fit : FracEq(fit[i].scale, scaleFor(0))

\* C12 as amended: the scale applied is
\* min((Vw - 20) / W, (Vh - 20) / H) * 0.95, the viewport less a padding of 20.
C12_ScaleOfPaddedViewport ==
  \A i \in DOMAIN fit : FracEq(fit[i].scale, scaleFor(20))

\* a fit was applied where the height is the binding side
C12_Witness ==
  /\ Len(fit) = 1
  /\ (height - 20) * scene.bbox.width < (width - 20) * scene.bbox.height

\* the centre of the box [origin, origin + extent] after scale and translate
fittedCentre(translate, scale, origin, extent) ==
  FracAdd(translate, Frac(scale.num * (2 * origin + extent), 2 * scale.den))

\* C13: after the fit the centre of the scaled and translated bounding box is
\* the centre of the viewport (width / 2, height / 2), for any origin of the
\* box, negative ones included.
C13_FittedBoxIsCentred ==
  \A i \in DOMAIN fit :
    /\ FracEq(fittedCentre(fit[i].translateX, fit[i].scale,
                           scene.bbox.x, scene.bbox.width),
              Frac(width, 2))
    /\ FracEq(fittedCentre(fit[i].translateY, fit[i].scale,
                           scene.bbox.y, scene.bbox.height),
              Frac(height, 2))

\* a fit was applied to a box with a negative origin
C13_Witness ==
  Len(fit) = 1 /\ scene.bbox.x < 0

isBezier(d) == Len(d) = 2 /\ d[1].op = "M" /\ d[2].op = "C"

isLoopBack(d) ==
  /\ Len(d) = 10
  /\ \A j \in 1 .. 10 :
       d[j].op = <<"M", "L", "Q", "L", "Q", "L", "Q", "L", "Q", "L">>[j]

sourceRight(k) ==
  scene.nodes[scene.links[k].source].x + scene.nodes[scene.links[k].source].width

targetLeft(k) == scene.nodes[scene.links[k].target].x

\* C14: a link gets the single cubic Bezier path exactly when the target's
\* left edge is strictly right of the source's right edge; in every other
\* case, the two edges being equal included, it gets the loop-back path.
C14_BezierOnlyStrictlyRight ==
  \A grp \in linkGroups :
    /\ isBezier(grp.d) <=> targetLeft(grp.link) > sourceRight(grp.link)
    /\ isLoopBack(grp.d) <=> ~(targetLeft(grp.link) > sourceRight(grp.link))

\* C14 as amended: a link gets the single cubic Bezier path exactly when the
\* target's left edge is at or right of the source's right edge, and the
\* loop-back path exactly when it is strictly left of it.
C14_BezierAtOrRight ==
  \A grp \in linkGroups :
    /\ isBezier(grp.d) <=> targetLeft(grp.link) >= sourceRight(grp.link)
    /\ isLoopBack(grp.d) <=> targetLeft(grp.link) < sourceRight(grp.link)

\* a link whose target's left edge is exactly at the source's right edge
C14_Witness ==
  \E grp \in linkGroups :
    targetLeft(grp.link) = sourceRight(grp.link) /\ isBezier(grp.d)

firstPoint(d) == d[1].pts[1]

lastPoint(d) == d[Len(d)].pts[Len(d[Len(d)].pts)]

\* C15: every primary path starts exactly at the source's right-centre
\* (x + width, y + height / 2) and ends exactly at the target's left-centre
\* (x, y + height / 2), forward or loop-back, for any link index and any
\* explicit loop height.
C15_PathEndsAtTheAnchors ==
  \A grp \in linkGroups :
    LET src == scene.nodes[scene.links[grp.link].source]
        tgt == scene.nodes[scene.links[grp.link].target]
    IN  /\ grp.d # << >>
        /\ firstPoint(grp.d)[1] = src.x + src.width
        /\ 2 * firstPoint(grp.d)[2] = 2 * src.y + src.height
        /\ lastPoint(grp.d)[1] = tgt.x
        /\ 2 * lastPoint(grp.d)[2] = 2 * tgt.y + tgt.height
        /\ \A e \in defs : e.id = pathId(grp.link) => e.d = grp.d

\* a loop-back link at the third place of the list, and one with returnY
C15_Witness ==
  /\ \E grp \in linkGroups : grp.link = 3 /\ isLoopBack(grp.d)
  /\ \E grp \in linkGroups :
       isLoopBack(grp.d) /\ Has(scene.links[grp.link], "returnY")

\* the loop height of a loop-back path: the y of its horizontal run
loopHeight(d) == d[6].pts[1][2]

groupOf(k) == CHOOSE grp \in linkGroups : grp.link = k

\* loop-back links k1, k2 with the same source and target, no explicit height
sameLoop(k1, k2) ==
  /\ \E grp \in linkGroups : grp.link = k1 /\ isLoopBack(grp.d)
  /\ \E grp \in linkGroups : grp.link = k2 /\ isLoopBack(grp.d)
  /\ scene.links[k1].source = scene.links[k2].source
  /\ scene.links[k1].target = scene.links[k2].target
  /\ ~Has(scene.links[k1], "returnY") /\ ~Has(scene.links[k2], "returnY")

\* k2 is the next such link after k1 in the order the links are rendered
successiveLoops(k1, k2) ==
  /\ k1 < k2 /\ sameLoop(k1, k2)
  /\ \A k \in DOMAIN scene.links : (k1 < k /\ k < k2) => ~sameLoop(k1, k)

\* C16: of N loop-back links with the same source and target and no explicit
\* loop height, rendered in sequence, each successive one has a fallback loop
\* height exactly 60 units greater than the previous one.
C16_SuccessiveLoopsAre60Apart ==
  \A k1, k2 \in DOMAIN scene.links :
    successiveLoops(k1, k2) =>
      loopHeight(groupOf(k2).d) - loopHeight(groupOf(k1).d) = 60

\* C16 as amended: the fallback loop heights of two such links differ by 60
\* units for every place between them in the link list (60 * (k2 - k1)), so
\* by exactly 60 when the two links are next to each other in the list.
C16_LoopsAre60ApartPerPlace ==
  \A k1, k2 \in DOMAIN scene.links :
    (k1 < k2 /\ sameLoop(k1, k2)) =>
      loopHeight(groupOf(k2).d) - loopHeight(groupOf(k1).d) = 60 * (k2 - k1)

\* two such links have been drawn with another link between them
C16_Witness ==
  \E k \in DOMAIN scene.links :
    k + 2 \in DOMAIN scene.links /\ successiveLoops(k, k + 2)

allPoints(d) == UNION {{d[j].pts[i] : i \in DOMAIN d[j].pts} : j \in DOMAIN d}

\* a drawn link whose source's right anchor is (100, 50) and whose target's
\* left anchor is (40, 200), with no explicit loop height
exampleLinks ==
  {grp \in linkGroups :
     LET src == scene.nodes[scene.links[grp.link].source]
         tgt == scene.nodes[scene.links[grp.link].target]
     IN  /\ src.x + src.width = 100 /\ 2 * src.y + src.height = 2 * 50
         /\ tgt.x = 40 /\ 2 * tgt.y + tgt.height = 2 * 200
         /\ ~Has(scene.links[grp.link], "returnY")}

\* C17: a link from a right anchor (100, 50) to a left anchor (40, 200) with
\* no explicit loop height produces a loop-back path none of whose points has
\* x < 0 and whose loop height is at least max(50, 200) + 100 = 300.
C17_ExampleStaysRightOfZero ==
  \A grp \in exampleLinks :
    /\ isLoopBack(grp.d)
    /\ \A pt \in allPoints(grp.d) : ~(pt[1] < 0)
    /\ loopHeight(grp.d) >= 300

\* C17 as amended: that link produces a loop-back path whose loop height is
\* at least 300 (300 plus 60 per place in the link list) and whose leftmost
\* points are at x = 40 - 30 - 20 = -10: no point has x < -10.
C17_ExampleReachesMinusTen ==
  \A grp \in exampleLinks :
    /\ isLoopBack(grp.d)
    /\ \A pt \in allPoints(grp.d) : ~(pt[1] < -10)
    /\ \E pt \in allPoints(grp.d) : pt[1] = -10
    /\ loopHeight(grp.d) >= 300
    /\ loopHeight(grp.d) = 300 + 60 * (grp.link - 1)

\* the example link, first in the list, drawn with loop height 300
C17_Witness ==
  \E grp \in exampleLinks : grp.link = 1 /\ loopHeight(grp.d) = 300

\* C18: for a link whose source or target is not in the node set a render
\* creates no path element, no label and no marker, raises no error, and
\* still draws every other link and every node.
C18_UnresolvedLinkLeavesNothing ==
  /\ \A k \in DOMAIN scene.links \ resolvedLinks :
       /\ \A e \in defs : e.id.link # k
       /\ \A grp \in linkGroups : grp.link # k
       /\ \A m \in particles : m.link # k
  /\ step = "done" =>
       /\ \A k \in resolvedLinks : \E grp \in linkGroups : grp.link = k
       /\ \A n \in DOMAIN scene.nodes : n \in nodeGroups

\* C19: for every link whose ends resolve exactly one primary path definition
\* is produced, and a reverse-text definition if and only if the primary path
\* is the loop-back form; a label is bound to the reverse-text path exactly
\* for the loop-back links and to the primary path for the others, so a label
\* never references a definition that does not exist.
C19_LabelsReferenceExistingDefs ==
  step \notin {"defs", "links"} =>
    \A k \in resolvedLinks :
      LET primary == {e \in defs : e.id = pathId(k)}
          text == {e \in defs : e.id = textPathIdOf(k)}
          grp == groupOf(k)
      IN  /\ Cardinality(primary) = 1
          /\ Cardinality(text) <= 1
          /\ text # {} <=> \A e \in primary : isLoopBack(e.d)
          /\ grp.label # NoLabel =>
               /\ grp.label.href = textPathIdOf(k) <=> isLoopBack(grp.d)
               /\ grp.label.href = pathId(k) <=> ~isLoopBack(grp.d)
               /\ \E e \in defs : e.id = grp.label.href

\* a labelled loop-back link and a labelled forward link have been drawn
C19_Witness ==
  /\ step = "done"
  /\ \E grp \in linkGroups :
       grp.label # NoLabel /\ grp.label.href = textPathIdOf(grp.link)
  /\ \E grp \in linkGroups :
       grp.label # NoLabel /\ grp.label.href = pathId(grp.link)

markersOf(k) == {m \in particles : m.link = k}

\* C20: a link with no label position has its label at 50% of the path and a
\* link with no spawn count gets exactly 3 markers; a label position of 0 or
\* a spawn count of 0 is honoured (label at 0%, no markers).
C20_DefaultsAndExplicitZero ==
  \A grp \in linkGroups :
    LET link == scene.links[grp.link]
    IN  /\ (grp.label # NoLabel /\ ~Has(link, "labelPosition"))
             => grp.label.startOffset = 50
        /\ (grp.label # NoLabel /\ Has(link, "labelPosition")
              /\ link.labelPosition = 0)
             => grp.label.startOffset = 0
        /\ (step = "done" /\ ~Has(link, "animationFrequency"))
             => Cardinality(markersOf(grp.link)) = 3
        /\ (step = "done" /\ Has(link, "animationFrequency")
              /\ link.animationFrequency = 0)
             => Cardinality(markersOf(grp.link)) = 0

\* a pass drew a link with label position 0 and spawn count 0 and a labelled
\* link with neither field
C20_Witness ==
  /\ step = "done"
  /\ \E grp \in linkGroups :
       /\ grp.label # NoLabel /\ grp.label.startOffset = 0
       /\ Has(scene.links[grp.link], "animationFrequency")
       /\ markersOf(grp.link) = {}
  /\ \E grp \in linkGroups :
       /\ grp.label # NoLabel /\ grp.label.startOffset = 50
       /\ ~Has(scene.links[grp.link], "animationFrequency")
       /\ Cardinality(markersOf(grp.link)) = 3

-----------------------------------------------------------------------------
(* Properties of the lifecycle: the caller's data, the highlight, pulses    *)

\* C21: a render pass leaves the caller-supplied configuration unchanged: after
\* any number of renders every node object and every link object of the
\* diagram data has exactly the fields and values it had before the first
\* render (no link object carries a field it was not given).
C21_RendersLeaveTheDataUnchanged ==
  \A d \in DatasetNames :
    \A k \in DOMAIN DATASETS[d].links : particleConfig[d][k] = NoConfig

\* the 200 ms transition that mouseenter started on the hovered node has ended:
\* the page has been painted since the pointer entered
hoverPainted == \A t \in onNode(gen, hover) : t.what # "hoverIn"

\* C22: in a scene drawn without staged reveal, after the pointer enters
\* node n every node that is neither n nor linked to n is drawn at opacity 0.2
\* and every link not incident to n at opacity 0.1; once the pointer has left
\* and no node is highlighted, every element is drawn at its base opacity
\* (nodes 1, links 0.6); the last hover event alone determines the highlight.
C22_HoverDimsTheUnrelated ==
  mounted /\ ~revealActive =>
    /\ hover # nullNode /\ hoverPainted =>
         /\ highlightedNode = hover
         /\ \A id \in DOMAIN nodeEls :
              nodeEls[id].opacity = nodeBaseOpacity(diagramData, id, hover)
         /\ \A l \in Range(DATASETS[diagramData].links) :
              l.id \in DOMAIN linkEls /\ l.source # hover /\ l.target # hover
                => linkEls[l.id].opacity = 10
    /\ hover = nullNode /\ highlightedNode = nullNode =>
         /\ \A id \in DOMAIN nodeEls : nodeEls[id].opacity = 100
         /\ \A id \in DOMAIN linkEls : linkEls[id].opacity = 60

-----------------------------------------------------------------------------
(* Click navigation.  Node ids and table keys are strings, held as the      *)
(* sequences of their characters, so that toLowerCase and includes are      *)
(* computed character by character.                                         *)

\* bound: clicks followed in one run
MaxClicks == 2

\* the lifecycle is not followed: one mounted diagram, nothing scheduled
IdleLife ==
  /\ mkLink = NoLink
  /\ host = "other"
  /\ showProposed = FALSE
  /\ animateTransition = FALSE
  /\ diagramData = currentSystemData
  /\ width = 1100
  /\ mounted = TRUE
  /\ gen = 1
  /\ now = 0
  /\ nextId = 1
  /\ transitions = {}
  /\ timeouts = {}
  /\ nodeEls = << >>
  /\ linkEls = << >>
  /\ markerEls = {}
  /\ particleConfig = [d \in DatasetNames |->
                         [k \in DOMAIN DATASETS[d].links |-> NoConfig]]
  /\ hover = nullNode
  /\ highlightedNode = nullNode
  /\ tooltipVisible = FALSE
  /\ tooltipIconPath = ""
  /\ tooltipContext = "current"
  /\ renders = 0
  /\ pointerEvents = 0

farm == <<"f", "a", "r", "m">>
chicken == <<"c", "h", "i", "c", "k", "e", "n">>
house == <<"h", "o", "u", "s", "e">>
processing == <<"p", "r", "o", "c", "e", "s", "s", "i", "n", "g">>
plant == <<"p", "l", "a", "n", "t">>
waterways == <<"w", "a", "t", "e", "r", "w", "a", "y", "s">>
anaerobic == <<"a", "n", "a", "e", "r", "o", "b", "i", "c">>
digester == <<"d", "i", "g", "e", "s", "t", "e", "r">>
pyrolysis == <<"p", "y", "r", "o", "l", "y", "s", "i", "s">>
unit == <<"u", "n", "i", "t">>
constructor == <<"c", "o", "n", "s", "t", "r", "u", "c", "t", "o", "r">>
dash == <<"-">>
plural == <<"s">>

\* const NODE_TO_COMPONENT_MAP: the entries in the order Object.entries gives
\* them (insertion order: no key is an integer index)
NODE_TO_COMPONENT_MAP ==
  << <<farm, "farm">>,
     <<farm \o plural, "farm">>,
     <<chicken \o dash \o house, "chicken-house">>,
     <<chicken \o dash \o house \o plural, "chicken-house">>,
     <<processing \o dash \o plant, "processing-plant">>,
     <<waterways, "waterways">>,
     <<farm \o dash \o waterways, "waterways">>,
     <<anaerobic \o dash \o digester, "anaerobic-digester">>,
     <<pyrolysis \o dash \o unit, "pyrolysis-unit">>,
     <<pyrolysis, "pyrolysis-unit">> >>

undefined == "undefined"

\* the properties every object literal inherits from Object.prototype whose
\* names are lower-case, with the text a template literal makes of their value
ObjectPrototype ==
  << <<constructor, "function Object() { [native code] }">>,
     <<<<"_", "_", "p", "r", "o", "t", "o", "_", "_">>, "[object Object]">> >>

Upper ==
  <<"A", "B", "C", "D", "E", "F", "G", "H", "I", "J", "K", "L", "M",
    "N", "O", "P", "Q", "R", "S", "T", "U", "V", "W", "X", "Y", "Z">>

Lower ==
  <<"a", "b", "c", "d", "e", "f", "g", "h", "i", "j", "k", "l", "m",
    "n", "o", "p", "q", "r", "s", "t", "u", "v", "w", "x", "y", "z">>

\* String.prototype.toLowerCase
toLowerCase(str) ==
  [i \in DOMAIN str |->
     IF \E k \in DOMAIN Upper : Upper[k] = str[i]
     THEN Lower[CHOOSE k \in DOMAIN Upper : Upper[k] = str[i]]
     ELSE str[i]]

\* String.prototype.includes: part occurs in str as a run of characters
includes(str, part) ==
  \E i \in 0 .. Len(str) - Len(part) : SubSeq(str, i + 1, i + Len(part)) = part

\* table[key] of an object literal: an own property, else an inherited one
propertyOf(table, key) ==
  IF \E e \in DOMAIN table : table[e][1] = key
  THEN table[CHOOSE e \in DOMAIN table : table[e][1] = key][2]
  ELSE IF \E e \in DOMAIN ObjectPrototype : ObjectPrototype[e][1] = key
  THEN ObjectPrototype[CHOOSE e \in DOMAIN ObjectPrototype :
                         ObjectPrototype[e][1] = key][2]
  ELSE undefined

\* for (const [key, slug] of Object.entries(NODE_TO_COMPONENT_MAP)):
\* the router.push calls of the loop, from entry e on
RECURSIVE partialMatch(_, _)
partialMatch(nodeId, e) ==
  IF e > Len(NODE_TO_COMPONENT_MAP) THEN << >>
  ELSE IF includes(nodeId, NODE_TO_COMPONENT_MAP[e][1])
            \/ includes(NODE_TO_COMPONENT_MAP[e][1], nodeId)
  THEN <<NODE_TO_COMPONENT_MAP[e][2]>>
  ELSE partialMatch(nodeId, e + 1)

\* the click handler of a node group: the router.push calls it makes
clickPushes(id, enabled) ==
  IF ~enabled THEN << >>
  ELSE LET nodeId == toLowerCase(id)
           componentSlug == propertyOf(NODE_TO_COMPONENT_MAP, nodeId)
       IN  IF componentSlug # undefined
           THEN <<componentSlug>>
           ELSE partialMatch(nodeId, 1)

\* the node ids a payload may carry
ClickIds ==
  {farm, <<"F">> \o SubSeq(farm, 2, 4), farm \o plural, SubSeq(farm, 1, 3),
   farm \o dash \o waterways, SubSeq(waterways, 1, 8), house,
   chicken \o dash \o house \o dash \o <<"a">>,
   <<"P", "Y", "R", "O">> \o SubSeq(pyrolysis, 5, 9),
   digester \o dash \o unit, <<"b", "i", "o", "c", "h", "a", "r">>,
   << >>, <<"x">>, constructor}

click(id) ==
  /\ Len(clicks) < MaxClicks
  /\ clicks' = Append(clicks, [node |-> id,
                               pushed |-> clickPushes(id, enableNavigation)])
  /\ UNCHANGED <<lifeVars, passVars, enableNavigation,
                 diagrams, pathEls, markerPaths, labelPaths,
                 cursor, viewport, tooltipRect, position, requests,
                 tooltipData, dataContext, loads>>

InitClick ==
  /\ IdleLife
  /\ IdleLoads
  /\ IdleServer
  /\ IdlePass
  /\ IdleDocument
  /\ IdleTooltip
  /\ enableNavigation \in BOOLEAN
  /\ clicks = << >>

NextClick == \E id \in ClickIds : click(id)

SpecClick == InitClick /\ [][NextClick]_vars

\* the own keys of the table
tableKeys == {NODE_TO_COMPONENT_MAP[e][1] : e \in DOMAIN NODE_TO_COMPONENT_MAP}

slugOf(key) ==
  NODE_TO_COMPONENT_MAP[CHOOSE e \in DOMAIN NODE_TO_COMPONENT_MAP :
                          NODE_TO_COMPONENT_MAP[e][1] = key][2]

\* the entries whose key contains the id or is contained in it
partialEntries(nodeId) ==
  {e \in DOMAIN NODE_TO_COMPONENT_MAP :
     \/ includes(nodeId, NODE_TO_COMPONENT_MAP[e][1])
     \/ includes(NODE_TO_COMPONENT_MAP[e][1], nodeId)}

\* the destination the claim gives a click on node id, as a list of at most one
claimedPushes(id) ==
  LET nodeId == toLowerCase(id)
  IN  IF nodeId \in tableKeys THEN <<slugOf(nodeId)>>
      ELSE IF partialEntries(nodeId) # {}
      THEN <<NODE_TO_COMPONENT_MAP[
               CHOOSE e \in partialEntries(nodeId) :
                 \A o \in partialEntries(nodeId) : e <= o][2]>>
      ELSE << >>

\* C23: a click on a node with navigation enabled triggers at most one
\* navigation: to the slug mapped to the lower-cased node id when that id is a
\* key of the lookup table, otherwise to the slug of the first table key (in
\* table order) that contains the node id or is contained in it, otherwise
\* none; with navigation disabled a click never navigates.
C23_ClickNavigatesByTheTable ==
  \A c \in DOMAIN clicks :
    /\ Len(clicks[c].pushed) <= 1
    /\ enableNavigation => clicks[c].pushed = claimedPushes(clicks[c].node)
    /\ ~enableNavigation => clicks[c].pushed = << >>

-----------------------------------------------------------------------------
(* Two diagrams on one page.  An instanceId or a link id is held as the     *)
(* sequence of its parts between dashes, so that the template literal       *)
(* `link-path-${instanceId}-${link.id}` is the concatenation of the parts.  *)

\* bound: links of each of the two diagrams
MaxDiagramLinks == 1

\* `link-path-${instanceId}-${link.id}`
linkPathId(instanceId, linkId) == <<"link", "path">> \o instanceId \o linkId

\* `link-path-${instanceId}-${link.id}-text`
linkTextPathId(instanceId, linkId) ==
  <<"link", "path">> \o instanceId \o linkId \o <<"text">>

\* the defs loop of diagram i: a primary path per link, and a text path for a
\* loop-back link, in the order they are appended
RECURSIVE defsLoop(_, _, _)
defsLoop(i, diag, k) ==
  IF k > Len(diag.links) THEN << >>
  ELSE <<[owner |-> i, link |-> k, text |-> FALSE,
          id |-> linkPathId(diag.instanceId, diag.links[k].id)]>>
       \o (IF diag.links[k].isReverse
           THEN <<[owner |-> i, link |-> k, text |-> TRUE,
                   id |-> linkTextPathId(diag.instanceId, diag.links[k].id)]>>
           ELSE << >>)
       \o defsLoop(i, diag, k + 1)

NoElement == [owner |-> 0, link |-> 0, text |-> FALSE, id |-> << >>]

\* the path elements of the page in document order: the svg of the first
\* diagram precedes the svg of the second
documentOrder(els) == els[1] \o els[2]

\* document.getElementById: the first element of the document with that id
getElementById(els, id) ==
  LET doc == documentOrder(els)
      found == {j \in DOMAIN doc : doc[j].id = id}
  IN  IF found = {} THEN NoElement
      ELSE doc[CHOOSE j \in found : \A o \in found : j <= o]

\* const textPathId = isReverse ? `...-text` : `...`
textPathHref(diag, k) ==
  IF diag.links[k].isReverse
  THEN linkTextPathId(diag.instanceId, diag.links[k].id)
  ELSE linkPathId(diag.instanceId, diag.links[k].id)

\* the effect of diagram i: its paths are appended, then each link's marker
\* path is looked up by id in the document as it is at that moment
renderDiagram(i) ==
  /\ i \in DOMAIN diagrams
  /\ pathEls[i] = << >>
  /\ LET els == [pathEls EXCEPT ![i] = defsLoop(i, diagrams[i], 1)]
     IN  /\ pathEls' = els
         /\ markerPaths' =
              [markerPaths EXCEPT ![i] =
                 [k \in DOMAIN diagrams[i].links |->
                    getElementById(els,
                      linkPathId(diagrams[i].instanceId, diagrams[i].links[k].id))]]
  /\ labelPaths' = << >>
  /\ UNCHANGED <<lifeVars, passVars, enableNavigation, clicks, diagrams,
                 cursor, viewport, tooltipRect, position, requests,
                 tooltipData, dataContext, loads>>

\* the browser paints: every textPath follows its href into the document
paint ==
  /\ diagrams # << >>
  /\ \A i \in DOMAIN diagrams : pathEls[i] # << >>
  /\ labelPaths = << >>
  /\ labelPaths' =
       [i \in DOMAIN diagrams |->
          [k \in DOMAIN diagrams[i].links |->
             getElementById(pathEls, textPathHref(diagrams[i], k))]]
  /\ UNCHANGED <<lifeVars, passVars, enableNavigation, clicks, diagrams,
                 pathEls, markerPaths, cursor, viewport, tooltipRect, position,
                 requests,
                 tooltipData, dataContext, loads>>

\* the instanceId values a page may give its two diagrams
InstanceIds == {<<"current">>, <<"proposed">>, <<"default">>, <<"current", "2">>}

\* the link ids of the payloads
DiagramLinkIds == {<<"link", "1">>, <<"2", "link", "1">>, <<"link", "1", "text">>}

DiagramLinks == [id : DiagramLinkIds, isReverse : BOOLEAN]

DiagramLinkLists == UNION {[1 .. n -> DiagramLinks] : n \in 1 .. MaxDiagramLinks}

InitDocument ==
  /\ IdleLife
  /\ IdleLoads
  /\ IdleServer
  /\ IdlePass
  /\ IdleClick
  /\ IdleTooltip
  /\ diagrams \in {pair \in [{1, 2} -> [instanceId : InstanceIds,
                                          links : DiagramLinkLists]] :
                     pair[1].instanceId # pair[2].instanceId}
  /\ pathEls = << << >>, << >> >>
  /\ markerPaths = << << >>, << >> >>
  /\ labelPaths = << >>

NextDocument ==
  \/ \E i \in {1, 2} : renderDiagram(i)
  \/ paint

SpecDocument == InitDocument /\ [][NextDocument]_vars

\* C24: for two diagrams mounted on the same page with distinct instanceId
\* values, no path element id of one diagram equals a path element id of the
\* other, and each diagram's label and marker lookups resolve only to its own
\* path elements, even when both datasets contain links with the same id.
C24_InstanceIdsKeepPathsApart ==
  /\ \A a \in DOMAIN pathEls[1], b \in DOMAIN pathEls[2] :
       pathEls[1][a].id # pathEls[2][b].id
  /\ \A i \in DOMAIN markerPaths :
       \A k \in DOMAIN markerPaths[i] : markerPaths[i][k].owner = i
  /\ labelPaths # << >> =>
       \A i \in DOMAIN labelPaths :
         \A k \in DOMAIN labelPaths[i] : labelPaths[i][k].owner = i

-----------------------------------------------------------------------------
(* Tooltip position.  Lengths are whole pixels; the viewport heights are    *)
(* ones for which viewportHeight * 0.6 is a whole number, and the tooltip   *)
(* heights are even.                                                        *)

Min(a, b) == IF a <= b THEN a ELSE b

\* const isRightSide = x > viewportWidth / 2
isRightSide(x, vw) == 2 * x > vw

\* const isBottomArea = y > viewportHeight * 0.6
isBottomArea(y, vh) == 5 * y > 3 * vh

tooltipTopNoOffset(y, tooltipHeight, vh) ==
  LET padding == 20
      top0 == IF isBottomArea(y, vh)
              THEN Max(padding, y - tooltipHeight)
              ELSE LET c == y - tooltipHeight \div 2
                   IN  IF c < padding THEN padding
                       ELSE IF c + tooltipHeight > vh - padding
                       THEN vh - tooltipHeight - padding
                       ELSE c
  IN  Max(padding, Min(top0, vh - tooltipHeight - padding))

\* vertical positioning, then the final safety clamp
tooltipTop(y, tooltipHeight, vh) ==
  LET padding == 20
      verticalOffset == 80
      top0 == IF isBottomArea(y, vh)
              THEN Max(padding, y - tooltipHeight - verticalOffset)
              ELSE LET c == y - tooltipHeight \div 2
                   IN  IF c < padding THEN padding
                       ELSE IF c + tooltipHeight > vh - padding
                       THEN vh - tooltipHeight - padding
                       ELSE c
  IN  Max(padding, Min(top0, vh - tooltipHeight - padding))

\* horizontal positioning, then the final safety clamp
tooltipLeft(x, tooltipWidth, vw) ==
  LET padding == 20
      offset == 100
      left0 == IF isRightSide(x, vw) THEN padding
               ELSE IF x + offset + tooltipWidth > vw - padding
               THEN vw - tooltipWidth - padding
               ELSE x + offset
  IN  Max(padding, Min(left0, vw - tooltipWidth - padding))

\* Math.max(tooltipRect.width, 300), Math.max(tooltipRect.height, 200)
tooltipWidth == Max(tooltipRect.width, 300)

tooltipHeight == Max(tooltipRect.height, 200)

\* the layout effect of IconTooltip, run for a pointer position (x, y) of the
\* visible tooltip
positionEffect(x, y) ==
  /\ x <= viewport.width /\ y <= viewport.height
  /\ cursor' = [x |-> x, y |-> y]
  /\ position' = [left |-> tooltipLeft(x, tooltipWidth, viewport.width),
                  top |-> tooltipTop(y, tooltipHeight, viewport.height)]
  /\ UNCHANGED <<lifeVars, passVars, enableNavigation, clicks, diagrams,
                 pathEls, markerPaths, labelPaths, viewport, tooltipRect,
                 requests,
                 tooltipData, dataContext, loads>>

ViewportWidths == {800, 1200}

ViewportHeights == {400, 600}

TooltipWidths == {280, 320}

TooltipHeights == {120, 240, 500}

CursorXs == {0, 350, 500, 790}

CursorYs == {0, 100, 250, 330, 390, 590}

InitPosition ==
  /\ IdleLife
  /\ IdleLoads
  /\ IdleServer
  /\ IdlePass
  /\ IdleClick
  /\ IdleDocument
  /\ cursor = [x |-> 0, y |-> 0]
  /\ viewport \in [width : ViewportWidths, height : ViewportHeights]
  /\ tooltipRect \in [width : TooltipWidths, height : TooltipHeights]
  /\ position = [left |-> 0, top |-> 0]

NextPosition == \E x \in CursorXs, y \in CursorYs : positionEffect(x, y)

SpecPosition == InitPosition /\ [][NextPosition]_vars

\* the layout effect has run for the pointer position
positioned == position # [left |-> 0, top |-> 0]

pulsesInScene == {t \in transitions : inScene(t) /\ t.name = "pulse"}

\* C26: a pulse-eligible node starts pulsing only after it has been revealed:
\* no sequence of pointer enter/leave events puts a node into the pulsing
\* state while it is still hidden or in the middle of its reveal transition
\* (a node that has a pulse transition is at its base opacity and has no
\* reveal transition left).
C26_PulseOnlyAfterReveal ==
  \A t \in pulsesInScene :
    /\ t.el \in DOMAIN nodeEls
    /\ nodeEls[t.el].opacity \in BaseOpacities
    /\ revealsOn(t.el) = {}

-----------------------------------------------------------------------------
(* Properties of the render pass: the reverse variant of a loop-back path   *)

\* the points of a path in the order its commands give them
RECURSIVE pointsFrom(_, _)
pointsFrom(d, j) ==
  IF j > Len(d) THEN << >> ELSE d[j].pts \o pointsFrom(d, j + 1)

reversed(s) == [i \in 1 .. Len(s) |-> s[Len(s) + 1 - i]]

\* the path appended to <defs> under an id
defOf(id) == (CHOOSE e \in defs : e.id = id).d

\* the loop height of link k lies above, between or below its two anchors
loopSide(k) ==
  LET d == defOf(pathId(k))
      y1 == firstPoint(d)[2]
      y2 == lastPoint(d)[2]
  IN  IF loopHeight(d) < y1 /\ loopHeight(d) < y2 THEN "above"
      ELSE IF loopHeight(d) > y1 /\ loopHeight(d) > y2 THEN "below"
      ELSE "between"

\* C27: for every loop-back link, the reverse variant visits exactly the
\* point sequence of the primary path (anchors, corner control points and
\* segment joints) in the opposite order, for any loop height above, between
\* or below the two anchors.
C27_ReverseVisitsThePointsBackwards ==
  step # "defs" =>
    \A k \in DOMAIN scene.links :
      isLoopBack(defOf(pathId(k))) =>
        /\ \E e \in defs : e.id = textPathIdOf(k)
        /\ pointsFrom(defOf(textPathIdOf(k)), 1)
             = reversed(pointsFrom(defOf(pathId(k)), 1))
        /\ Len(pointsFrom(defOf(pathId(k)), 1)) = 14

\* a scene with three loop-back links whose loop heights lie above, between
\* and below the anchors
C27_Witness ==
  /\ step # "defs"
  /\ \A side \in {"above", "between", "below"} :
       \E k \in DOMAIN scene.links :
         /\ isLoopBack(defOf(pathId(k)))
         /\ loopSide(k) = side

-----------------------------------------------------------------------------
(* The authentication middleware.  A header is the sequence of its parts    *)
(* between spaces, each part a sequence of characters; a decoded string is  *)
(* the sequence of its character codes.                                     *)

\* bound: requests followed in one run
MaxRequests == 2

\* the alphabet of base64, in the order of its values 0 .. 63
Base64 ==
  <<"A", "B", "C", "D", "E", "F", "G", "H", "I", "J", "K", "L", "M",
    "N", "O", "P", "Q", "R", "S", "T", "U", "V", "W", "X", "Y", "Z",
    "a", "b", "c", "d", "e", "f", "g", "h", "i", "j", "k", "l", "m",
    "n", "o", "p", "q", "r", "s", "t", "u", "v", "w", "x", "y", "z",
    "0", "1", "2", "3", "4", "5", "6", "7", "8", "9", "+", "/">>

base64Value(c) == (CHOOSE v \in DOMAIN Base64 : Base64[v] = c) - 1

\* atob strips one or two trailing "=" of an input whose length is a multiple of 4
stripPadding(data) ==
  LET n == Len(data)
  IN  IF n > 0 /\ n % 4 = 0 /\ data[n] = "="
      THEN IF data[n - 1] = "=" THEN SubSeq(data, 1, n - 2)
           ELSE SubSeq(data, 1, n - 1)
      ELSE data

\* atob throws InvalidCharacterError: a length of 1 modulo 4 after stripping,
\* or a character outside the alphabet
atobThrows(data) ==
  LET body == stripPadding(data)
  IN  \/ Len(body) % 4 = 1
      \/ \E i \in DOMAIN body : \A v \in DOMAIN Base64 : Base64[v] # body[i]

\* the bytes of the groups of four characters from position i on; a last
\* group of two or three characters gives one or two bytes
RECURSIVE decodeFrom(_, _)
decodeFrom(body, i) ==
  IF Len(body) - i + 1 <= 1 THEN << >>
  ELSE LET left == Len(body) - i + 1
           v1 == base64Value(body[i])
           v2 == base64Value(body[i + 1])
           b1 == v1 * 4 + v2 \div 16
       IN  IF left = 2 THEN <<b1>>
           ELSE LET v3 == base64Value(body[i + 2])
                    b2 == (v2 % 16) * 16 + v3 \div 4
                IN  IF left = 3 THEN <<b1, b2>>
                    ELSE LET v4 == base64Value(body[i + 3])
                             b3 == (v3 % 4) * 64 + v4
                         IN  <<b1, b2, b3>> \o decodeFrom(body, i + 4)

\* atob of an input on which it does not throw: the character codes
atob(data) == decodeFrom(stripPadding(data), 1)

\* String(undefined): what atob makes of a missing second part
undefinedText == <<"u", "n", "d", "e", "f", "i", "n", "e", "d">>

colon == 58

\* str.split(':'): the parts between the colons, from position i on
RECURSIVE splitFrom(_, _, _)
splitFrom(str, i, part) ==
  IF i > Len(str) THEN <<part>>
  ELSE IF str[i] = colon THEN <<part>> \o splitFrom(str, i + 1, << >>)
  ELSE splitFrom(str, i + 1, Append(part, str[i]))

split(str) == splitFrom(str, 1, << >>)

\* 'calvin' and 'calvin123' as character codes
calvin == <<99, 97, 108, 118, 105, 110>>

calvin123 == <<99, 97, 108, 118, 105, 110, 49, 50, 51>>

\* request.headers.get('authorization'): null for a missing header, else the
\* header text, held as its parts between spaces
Header(present, parts) == [present |-> present, parts |-> parts]

\* if (basicAuth): a header that is present and not the empty string
truthy(header) == header.present /\ header.parts # << << >> >>

\* export function middleware(request): NextResponse.next(), a rewrite to
\* /api/auth, or the exception atob throws
middleware(header) ==
  IF truthy(header)
  THEN LET authValue == IF Len(header.parts) >= 2 THEN header.parts[2]
                        ELSE undefinedText
       IN  IF atobThrows(authValue) THEN "throw"
           ELSE LET parts == split(atob(authValue))
                IN  IF parts[1] = calvin /\ Len(parts) >= 2 /\ parts[2] = calvin123
                    THEN "next"
                    ELSE "rewrite"
  ELSE "rewrite"

\* base64 of 'calvin:calvin123'
goodCredentials ==
  <<"Y", "2", "F", "s", "d", "m", "l", "u", "O", "m", "N", "h", "b", "H",
    "Z", "p", "b", "j", "E", "y", "M", "w", "=", "=">>

\* base64 of 'calvin:calvin124', 'calvim:calvin123', 'calvin' and
\* 'calvin:calvin123:x'
wrongPassword ==
  <<"Y", "2", "F", "s", "d", "m", "l", "u", "O", "m", "N", "h", "b", "H",
    "Z", "p", "b", "j", "E", "y", "N", "A", "=", "=">>

wrongUser ==
  <<"Y", "2", "F", "s", "d", "m", "l", "t", "O", "m", "N", "h", "b", "H",
    "Z", "p", "b", "j", "E", "y", "M", "w", "=", "=">>

noPassword == <<"Y", "2", "F", "s", "d", "m", "l", "u">>

extraPart ==
  <<"Y", "2", "F", "s", "d", "m", "l", "u", "O", "m", "N", "h", "b", "H",
    "Z", "p", "b", "j", "E", "y", "M", "z", "p", "4">>

Basic == <<"B", "a", "s", "i", "c">>

Bearer == <<"B", "e", "a", "r", "e", "r">>

\* the authorization headers of the requests: missing, empty, or some text
AuthHeaders ==
  {Header(FALSE, << >>)} \cup
  {Header(TRUE, parts) :
     parts \in {<< << >> >>, <<Basic>>, <<Basic, << >> >>,
                <<Basic, goodCredentials>>, <<Bearer, goodCredentials>>,
                <<Basic, wrongPassword>>, <<Basic, wrongUser>>,
                <<Basic, noPassword>>, <<Basic, extraPart>>,
                <<Basic, <<"!", "!", "!", "!">> >>,
                <<Basic, SubSeq(goodCredentials, 1, 21)>>,
                <<Basic, goodCredentials, Basic>>}}

handleRequest(header) ==
  /\ Len(requests) < MaxRequests
  /\ requests' = Append(requests, [header |-> header,
                                   outcome |-> middleware(header)])
  /\ UNCHANGED <<lifeVars, passVars, enableNavigation, clicks, diagrams,
                 pathEls, markerPaths, labelPaths, cursor, viewport,
                 tooltipRect, position, tooltipData, dataContext, loads>>

InitAuth ==
  /\ IdleLife
  /\ IdleLoads
  /\ IdlePass
  /\ IdleClick
  /\ IdleDocument
  /\ IdleTooltip
  /\ requests = << >>

NextAuth == \E header \in AuthHeaders : handleRequest(header)

SpecAuth == InitAuth /\ [][NextAuth]_vars

\* the header carries credentials that decode to user calvin and password
\* calvin123: a second part that is base64 of 'calvin:calvin123'
carriesTheCredentials(header) ==
  /\ truthy(header) /\ Len(header.parts) >= 2
  /\ ~atobThrows(header.parts[2])
  /\ atob(header.parts[2]) = calvin \o <<colon>> \o calvin123

\* C28: the middleware lets a request through only if its authorization
\* header carries credentials that decode to user "calvin" and password
\* "calvin123"; every other request, including one whose header is missing,
\* has no second token or is not decodable, is rewritten to /api/auth and
\* never passed through or failed with an exception.
C28_OnlyTheCredentialsPass ==
  \A r \in DOMAIN requests :
    /\ requests[r].outcome = "next" => carriesTheCredentials(requests[r].header)
    /\ ~carriesTheCredentials(requests[r].header) =>
         requests[r].outcome = "rewrite"

-----------------------------------------------------------------------------
(* Properties of the lifecycle: the buttons of the home page                *)

\* a step that draws a new scene without a change of the measured width: on
\* the home page, a re-render caused by one of the two buttons
redrawnByButton == mounted /\ gen' # gen /\ width' = width

\* C29: on the home page, after any sequence of clicks on the Current and
\* Proposed buttons, animateTransition equals showProposed; a click on
\* Proposed while the proposed system is already shown changes no state (every
\* redraw by a button changes showProposed), so the staged reveal is triggered
\* only by a switch from current to proposed.
C29_ButtonsKeepFlagsEqual ==
  [][host = "home" =>
       /\ animateTransition' = showProposed'
       /\ redrawnByButton => showProposed' # showProposed
       /\ redrawnByButton /\ revealActive' => ~showProposed /\ showProposed']_vars

\* both buttons have been clicked: the proposed system was shown with its
\* staged reveal, and the current system is shown again
C29_Witness ==
  /\ host = "home" /\ mounted
  /\ gen = 3 /\ width = 1100
  /\ ~showProposed /\ ~animateTransition
  /\ \E t \in transitions : t.gen = 2 /\ t.what \in {"reveal", "linkReveal"}


(***************************************************************************)
(* The tooltip's data.  IconTooltip asks the tooltip service for the data  *)
(* of its icon each time the icon, the context or the visibility changes;  *)
(* the answer arrives later, and the answers of two requests arrive in     *)
(* either order.  Nothing cancels a request.                               *)
(***************************************************************************)

\* the page's state but the tooltip's data
pageVarsButLoads ==
  <<enableNavigation, clicks, diagrams, pathEls, markerPaths, labelPaths,
    cursor, viewport, tooltipRect, position, requests>>

\* the icons the diagram hands to the tooltip
TooltipIcons ==
  {"anaerobic-digester", "chicken-house", "farm", "processing-plant"}

\* the icons the tooltip service has an entry for
DescribedIcons == {"anaerobic-digester", "chicken-house", "processing-plant"}

\* getTooltipForIcon: what the promise resolves to, the entry of the icon
\* or null
getTooltipForIcon(iconPath) ==
  IF iconPath \in DescribedIcons THEN iconPath ELSE "null"

\* getTooltipContext: the fields of the entry for one context
getTooltipContext(data, ctx) == ctx

\* the load effect of IconTooltip, run after a render in which the icon or
\* the visibility changed
loadEffect(iconPath, visible, n) ==
  IF iconPath = "" \/ ~visible
  THEN /\ tooltipData' = "null"
       /\ dataContext' = "null"
       /\ UNCHANGED loads
  ELSE /\ loads' = loads \cup {[n |-> n, iconPath |-> iconPath,
                                context |-> tooltipContext]}
       /\ UNCHANGED <<tooltipData, dataContext>>

\* the pointer enters a node with the icon: the tooltip shows the icon
showTooltip(iconPath) ==
  /\ pointerEvents < MaxPointer
  /\ iconPath # tooltipIconPath \/ ~tooltipVisible
  /\ pointerEvents' = pointerEvents + 1
  /\ tooltipIconPath' = iconPath
  /\ tooltipVisible' = TRUE
  /\ loadEffect(iconPath, TRUE, pointerEvents)
  /\ UNCHANGED <<pageVarsButLoads, passVars, mkLink, host, showProposed,
                 animateTransition, diagramData, width, mounted, gen, now,
                 nextId, transitions, timeouts,
                 nodeEls, linkEls, markerEls, particleConfig, hover,
                 highlightedNode, tooltipContext, renders>>

\* the pointer leaves the node: the tooltip is hidden
hideTooltip ==
  /\ pointerEvents < MaxPointer
  /\ tooltipVisible
  /\ pointerEvents' = pointerEvents + 1
  /\ tooltipVisible' = FALSE
  /\ loadEffect(tooltipIconPath, FALSE, pointerEvents)
  /\ UNCHANGED <<pageVarsButLoads, passVars, mkLink, host, showProposed,
                 animateTransition, diagramData, width, mounted, gen, now,
                 nextId, transitions, timeouts,
                 nodeEls, linkEls, markerEls, particleConfig, hover,
                 highlightedNode, tooltipIconPath, tooltipContext, renders>>

\* the request started by the n-th pointer event
loadOf(n) == CHOOSE load \in loads : load.n = n

\* the callback of one request: it stores what the request resolved to
loadThen(n) ==
  /\ \E load \in loads : load.n = n
  /\ loads' = loads \ {loadOf(n)}
  /\ tooltipData' = getTooltipForIcon(loadOf(n).iconPath)
  /\ dataContext' =
       IF getTooltipForIcon(loadOf(n).iconPath) # "null"
       THEN getTooltipContext(getTooltipForIcon(loadOf(n).iconPath),
                              loadOf(n).context)
       ELSE dataContext
  /\ UNCHANGED <<pageVarsButLoads, passVars, lifeVars>>

\* what the tooltip displays: nothing, or the stored data
displayed ==
  IF ~tooltipVisible \/ tooltipData = "null" \/ dataContext = "null"
  THEN "null"
  ELSE tooltipData

InitTooltip ==
  /\ IdlePass
  /\ IdleClick
  /\ IdleDocument
  /\ IdleTooltip
  /\ IdleServer
  /\ IdleLoads
  /\ mkLink = NoLink
  /\ host = "other"
  /\ showProposed \in BOOLEAN
  /\ animateTransition = FALSE
  /\ diagramData = IF showProposed THEN proposedSystemData
                                   ELSE currentSystemData
  /\ width = 1100
  /\ mounted = TRUE
  /\ gen = 1
  /\ now = 0
  /\ nextId = 1
  /\ transitions = {}
  /\ timeouts = {}
  /\ nodeEls = << >>
  /\ linkEls = << >>
  /\ markerEls = {}
  /\ particleConfig = [d \in DatasetNames |->
                         [k \in DOMAIN DATASETS[d].links |-> NoConfig]]
  /\ hover = nullNode
  /\ highlightedNode = nullNode
  /\ tooltipVisible = FALSE
  /\ tooltipIconPath = ""
  /\ tooltipContext = IF showProposed THEN "proposed" ELSE "current"
  /\ renders = 0
  /\ pointerEvents = 0

NextTooltip ==
  \/ \E iconPath \in TooltipIcons : showTooltip(iconPath)
  \/ hideTooltip
  \/ \E n \in 0..(MaxPointer - 1) : loadThen(n)

SpecTooltip == InitTooltip /\ [][NextTooltip]_vars

\* C30: once every request has resolved, a visible tooltip holds the data
\* of the icon under the pointer, whichever request resolved last, and it
\* never displays the data of another icon than the one under the pointer
\* after a request resolved while it was hidden.
C30_TooltipHoldsTheHoveredIcon ==
  (tooltipVisible /\ loads = {}) =>
    /\ tooltipData = getTooltipForIcon(tooltipIconPath)
    /\ displayed \in {"null", tooltipIconPath}

====
